---- MODULE Spec2Model ----
(***************************************************************************)
(* Model of the evolver-nn simulation engine.                              *)
(*                                                                         *)
(*   - EvolutionaryChaosNetwork of src/src/engine/simulationEngine.ts      *)
(*     (the "main engine"), with the strategy selector of                  *)
(*     src/src/engine/metaController.ts;                                   *)
(*   - the E-I engine variant embedded in                                  *)
(*     src/src/components/TrainingStatsBar.tsx.                            *)
(*                                                                         *)
(* Numbers.  A JavaScript number is modelled in fixed point: the integer n *)
(* stands for n / S (S = 10^4).  The learning rate is kept in units of     *)
(* 1 / LRS (LRS = 10^6) because it is changed by 2% per tick.  Three       *)
(* reserved integers stand for NaN, +Infinity and -Infinity; the X...      *)
(* operators implement IEEE arithmetic on them (NaN is contagious,         *)
(* Infinity * 0 = NaN, every comparison with NaN is false).                *)
(*                                                                         *)
(* Math.random() is a linear congruential generator whose seed is chosen   *)
(* nondeterministically in Init; every call site consumes draws in the     *)
(* order of the source.                                                    *)
(***************************************************************************)
EXTENDS Integers, Sequences, FiniteSets, TLC

\* ------------------------------------------------------------------ bounds
MaxNeurons == 4
InitialNeurons == 3
NumSeeds == 3
MaxCalls == 108

\* --------------------------------------------------------- number encoding
S == 10 ^ 4
LRS == 10 ^ 6
NaN == 2 * 10 ^ 9 + 1
PInf == 2 * 10 ^ 9
NInf == 0 - 2 * 10 ^ 9

IsNaN(x) == x = NaN
IsFinite(x) == x # NaN /\ x # PInf /\ x # NInf

Abs(x) == IF x < 0 THEN 0 - x ELSE x
Sgn(x) == IF x > 0 THEN 1 ELSE IF x < 0 THEN 0 - 1 ELSE 0
Min(a, b) == IF a < b THEN a ELSE b
Max(a, b) == IF a > b THEN a ELSE b
Clamp(lo, hi, x) == Max(lo, Min(hi, x))

\* n / d rounded to nearest, for n >= 0 and d > 0
RoundDiv(n, d) == (n + d \div 2) \div d

\* a * b / d rounded to nearest without leaving 32 bits: the larger factor
\* is split in its multiple of d and the rest.
MulDiv(a, b, d) ==
    LET big == Max(Abs(a), Abs(b))
        small == Min(Abs(a), Abs(b))
        hi == big \div d
        lo == big % d
    IN Sgn(a) * Sgn(b) * (hi * small + RoundDiv(lo * small, d))

\* fixed-point product and quotient of two finite numbers
Mul(a, b) == MulDiv(a, b, S)
Div(a, b) == Sgn(a) * Sgn(b) * RoundDiv(Abs(a) * S, Abs(b))

\* w * num / den for a stored weight: a float product of nonzero factors is
\* nonzero, so a nonzero weight keeps at least one unit of magnitude.
ScaleWeight(w, num, den) ==
    IF w = 0 \/ num = 0 THEN 0
    ELSE Sgn(w) * Sgn(num) * Max(1, RoundDiv(Abs(w) * Abs(num), den))

\* Math.tanh on finite numbers: the Pade approximant x(27+x^2)/(27+9x^2),
\* saturated at |x| >= 3.
Tanh(x) ==
    IF x >= 3 * S THEN S
    ELSE IF x <= 0 - 3 * S THEN 0 - S
    ELSE LET x2 == Mul(x, x)
             a == 27 * S + x2
             b == 27 * S + 9 * x2
         IN Mul(x, (a * 1000) \div (b \div 10))

RECURSIVE ISqrtIter(_, _)
\* Newton iteration for floor(sqrt(n)), n >= 0
ISqrtIter(n, r) ==
    LET r2 == (r + n \div r) \div 2
    IN IF r2 >= r THEN r ELSE ISqrtIter(n, r2)
Sqrt(n) == IF n <= 0 THEN 0 ELSE IF n < 4 THEN 1 ELSE ISqrtIter(n, n \div 2)

\* ---- IEEE arithmetic on numbers that may be NaN or infinite
XNeg(x) == IF x = NaN THEN NaN ELSE 0 - x
XAbs(x) == IF x = NaN THEN NaN ELSE Abs(x)
XAdd(a, b) ==
    IF a = NaN \/ b = NaN THEN NaN
    ELSE IF a = PInf THEN (IF b = NInf THEN NaN ELSE PInf)
    ELSE IF a = NInf THEN (IF b = PInf THEN NaN ELSE NInf)
    ELSE IF b = PInf \/ b = NInf THEN b
    ELSE a + b
XSub(a, b) == XAdd(a, XNeg(b))
XMul(a, b) ==
    IF a = NaN \/ b = NaN THEN NaN
    ELSE IF ~IsFinite(a) \/ ~IsFinite(b)
         THEN (IF a = 0 \/ b = 0 THEN NaN
               ELSE IF Sgn(a) * Sgn(b) > 0 THEN PInf ELSE NInf)
    ELSE Mul(a, b)
\* a tanh that does not saturate
XTanhUnbounded(x) == IF x = NaN THEN NaN ELSE IF Abs(x) < 3 * S THEN Tanh(x) ELSE x
XTanh(x) == IF x = NaN THEN NaN
            ELSE IF x = PInf THEN S
            ELSE IF x = NInf THEN 0 - S
            ELSE Tanh(x)
\* Math.min / Math.max return NaN when an argument is NaN
XMin(a, b) == IF a = NaN \/ b = NaN THEN NaN ELSE Min(a, b)
XMax(a, b) == IF a = NaN \/ b = NaN THEN NaN ELSE Max(a, b)
\* a > b: false when an argument is NaN
XGt(a, b) == a # NaN /\ b # NaN /\ a > b

\* ------------------------------------------------------------ Math.random
\* One step of the generator and the draw in [0, S) it yields.
RandomModulus == 2 ^ 16 + 1
NextRandom(x) == (75 * x + 74) % RandomModulus
RandomValue(x) == (x * S) \div RandomModulus
RECURSIVE SkipRandom(_, _)
SkipRandom(x, n) == IF n = 0 THEN x ELSE SkipRandom(NextRandom(x), n - 1)
\* the k-th draw (k >= 1) after generator state x
Draw(x, k) == RandomValue(SkipRandom(x, k))

\* ------------------------------------------------ configuration, presets
\* SimulationConfig: maxNeurons and initialNeurons are the bounds above, the
\* other fields are those of DEFAULT_CONFIG.
pruneThreshold == 100
patienceLimit == 256
solvedThreshold == 100
unlockThreshold == 200
learningSlopeThreshold == 0 - 5

Hyper(leak, spectral, inputScale, learningRate, lvGrowth, lvDecay, smoothingFactor, outputGain) ==
    [leak |-> leak, spectral |-> spectral, inputScale |-> inputScale,
     learningRate |-> learningRate, lvGrowth |-> lvGrowth,
     lvDecay |-> lvDecay, smoothingFactor |-> smoothingFactor,
     outputGain |-> outputGain]

\* REGIMES.CRUISE, the birth state of liveHyperparams
CRUISE == Hyper(3000, 7000, 7000, 5000, 300, 80, 800, 8000)

\* STRATEGIES, indexed as STRATEGY_LIST
EXPLORE == 0
EXPLOIT == 1
STABILIZE == 2
RESET == 3
CONSOLIDATE == 4
NUM_STRATEGIES == 5
STRATEGIES ==
    [s \in 0 .. NUM_STRATEGIES - 1 |->
        CASE s = EXPLORE -> Hyper(5000, 8500, 10000, 20000, 800, 50, 200, 11000)
          [] s = EXPLOIT -> Hyper(4000, 8000, 9000, 8000, 300, 100, 600, 10000)
          [] s = STABILIZE -> Hyper(4000, 8500, 9000, 0, 0, 50, 1000, 10000)
          [] s = RESET -> Hyper(6000, 9000, 11000, 20000, 1000, 200, 100, 12000)
          [] s = CONSOLIDATE -> Hyper(4500, 8000, 9000, 2000, 0, 20, 1000, 10000)]
\* DEFAULT_META_CONFIG
warmupSteps == 50
strategyLockDuration == 100

Neurons == 0 .. MaxNeurons - 1
Cells == 0 .. MaxNeurons * MaxNeurons - 1
Idx(i, j) == i * MaxNeurons + j
RowOf(c) == c \div MaxNeurons
ColOf(c) == c % MaxNeurons

\* TLC keeps [x \in D |-> e] unevaluated and re-evaluates e at every
\* application; comparing the function evaluates it once and for all.
Eager(f) == IF f = f THEN f ELSE f
\* b, after a has been evaluated (keeps TLC's evaluation stack shallow)
After(a, b) == IF a = a THEN b ELSE b

RECURSIVE SumTo(_, _)
\* f[0] + ... + f[n-1]
SumTo(f, n) == IF n = 0 THEN 0 ELSE f[n - 1] + SumTo(f, n - 1)

\* --------------------------------------------------- spectral regulator
\* W^T u and W v over the first N neurons
TransposeTimes(W, N, u) ==
    [j \in 0 .. N - 1 |-> SumTo([i \in 0 .. N - 1 |-> Mul(W[Idx(i, j)], u[i])], N)]
Times(W, N, v) ==
    [i \in 0 .. N - 1 |-> SumTo([j \in 0 .. N - 1 |-> Mul(W[Idx(i, j)], v[j])], N)]

\* raw divided by its Euclidean norm, or fresh random entries when the norm
\* is 0 (the source's threshold 1e-9 is below one unit); entries from N on
\* keep their old value.  [vec, rng]
Normalize(raw, old, rng, N) ==
    LET norm == Sqrt(SumTo([j \in 0 .. N - 1 |-> raw[j] * raw[j]], N))
    IN [vec |-> [j \in Neurons |->
                   IF j >= N THEN old[j]
                   ELSE IF norm > 0 THEN Div(raw[j], norm)
                   ELSE Draw(rng, j + 1) - S \div 2],
        rng |-> IF norm > 0 THEN rng ELSE SkipRandom(rng, N)]

\* the second half of a round, u <- normalize(W v), for v = [vec, rng]
PowerRoundU(W, N, u, v) ==
    LET nu == Normalize(Eager(Times(W, N, v.vec)), u, v.rng, N)
    IN [u |-> nu.vec, v |-> v.vec, rng |-> nu.rng]

\* one round of the power iteration from p = [u, v, rng]:
\* v <- normalize(W^T u), u <- normalize(W v)
PowerRound(W, N, p) ==
    PowerRoundU(W, N, p.u,
                Eager(Normalize(Eager(TransposeTimes(W, N, p.u)), p.v, p.rng, N)))

RECURSIVE PowerIteration(_, _, _, _)
\* The loop of applySpectralNormalization: iters rounds from p = [u, v, rng]
PowerIteration(W, N, p, iters) ==
    IF iters = 0 THEN p
    ELSE After(p, PowerIteration(W, N, PowerRound(W, N, p), iters - 1))

\* sigma = u^T W v
RayleighQuotient(W, N, u, v) ==
    SumTo([i \in 0 .. N - 1 |->
             Mul(u[i], SumTo([j \in 0 .. N - 1 |-> Mul(W[Idx(i, j)], v[j])], N))],
          N)

\* the estimate without the update that follows the rescaling
UncappedRadius(sigma, targetSpectral) == sigma

\* what applySpectralNormalization stores in currentSpectralRadius
StoredRadius(sigma, targetSpectral) ==
    IF sigma > targetSpectral /\ sigma > 0 THEN targetSpectral ELSE sigma

\* "4. Normalize": W scaled by targetSpectral / sigma when sigma is too large
Normalized(weights, N, sigma, targetSpectral) ==
    IF sigma > targetSpectral /\ sigma > 0
    THEN [c \in Cells |->
            IF RowOf(c) < N /\ ColOf(c) < N
            THEN ScaleWeight(weights[c], targetSpectral, sigma)
            ELSE weights[c]]
    ELSE weights

\* the end of applySpectralNormalization, p = [u, v, rng] being the outcome
\* of the power iteration
Regulated(st, p) ==
    LET sigma == RayleighQuotient(st.net.weights, st.net.currentSize, p.u, p.v)
    IN [net |-> [st.net EXCEPT
                   !.spectralU = p.u,
                   !.spectralV = p.v,
                   !.currentSpectralRadius =
                       StoredRadius(sigma, st.net.liveHyperparams.spectral),
                   !.weights = Normalized(st.net.weights, st.net.currentSize, sigma,
                                          st.net.liveHyperparams.spectral)],
        rng |-> p.rng]

\* applySpectralNormalization(net, iterations); st = [net, rng]
applySpectralNormalization(st, iterations) ==
    Regulated(st, Eager(PowerIteration(st.net.weights, st.net.currentSize,
                                       [u |-> st.net.spectralU,
                                        v |-> st.net.spectralV,
                                        rng |-> st.rng], iterations)))

\* normalizeSingleRow(net, rowIdx, targetSpectral): the row is rescaled so
\* that its L1 sum becomes targetSpectral (whenever the sum is not 0).
normalizeSingleRow(net, rowIdx, targetSpectral) ==
    LET N == net.currentSize
        sum == SumTo([j \in 0 .. N - 1 |-> Abs(net.weights[Idx(rowIdx, j)])], N)
    IN IF sum > 0
       THEN [net EXCEPT !.weights =
               [c \in Cells |->
                  IF RowOf(c) = rowIdx /\ ColOf(c) < N
                  THEN ScaleWeight(net.weights[c], targetSpectral, sum)
                  ELSE net.weights[c]]]
       ELSE net

\* ----------------------------------------------------------- construction
RECURSIVE InitialWiring(_, _, _)
\* the "Initial Wiring" loop of initializeNetwork from cell c on
InitialWiring(weights, rng, c) ==
    IF c > Idx(InitialNeurons - 1, InitialNeurons - 1) THEN [weights |-> weights, rng |-> rng]
    ELSE IF ColOf(c) >= InitialNeurons THEN InitialWiring(weights, rng, c + 1)
    ELSE IF Draw(rng, 1) < 2000
         THEN InitialWiring(
                 [weights EXCEPT ![c] = Mul(Draw(rng, 2) * 2 - S, CRUISE.spectral)],
                 SkipRandom(rng, 2), c + 1)
         ELSE InitialWiring(weights, SkipRandom(rng, 1), c + 1)

\* the NetworkState literal of initializeNetwork and the "Init Weights" loop;
\* wired = [weights, rng] is the outcome of the initial wiring
BirthState(seed, wired) ==
    LET M == MaxNeurons
        rngW == SkipRandom(seed, 2 * M)
    IN [net |->
          [activations |-> [i \in Neurons |-> 0],
           prevActivations |-> [i \in Neurons |-> 0],
           weights |-> wired.weights,
           readout |-> [i \in Neurons |-> 0],
           inputWeights |-> [i \in Neurons |->
               Mul(Draw(rngW, 3 * i + 1) * 2 - S, CRUISE.inputScale)],
           feedbackWeights |-> [i \in Neurons |-> Draw(rngW, 3 * i + 2) * 2 - S],
           neuronTypes |-> [i \in Neurons |->
               IF Draw(rngW, 3 * i + 3) < 8000 THEN 1 ELSE 0 - 1],
           currentSize |-> InitialNeurons,
           totalRegrown |-> 0,
           currentTargetDensity |-> 2000,
           patienceCounter |-> 0,
           regressionSlope |-> 0 - 100,
           isLocked |-> FALSE,
           lossWindow |-> << >>,
           neuronEnergy |-> [i \in Neurons |-> S],
           engramTrace |-> [c \in Cells |-> 0],
           liveHyperparams |-> CRUISE,
           spectralU |-> [i \in Neurons |-> Draw(seed, i + 1) - S \div 2],
           spectralV |-> [i \in Neurons |-> Draw(seed, M + i + 1) - S \div 2],
           currentSpectralRadius |-> S],
        rng |-> wired.rng]

\* initializeNetwork(): the network after construction, from generator state seed
initializeNetwork(seed) ==
    applySpectralNormalization(
        BirthState(seed, InitialWiring([c \in Cells |-> 0],
                                       SkipRandom(seed, 5 * MaxNeurons), 0)), 10)

\* ------------------------------------------------------------------ tasks
\* Task.generator is a closure; here it is a script over the number n of
\* its earlier invocations, and the script is chosen at construction.
\* Every script but Wave feeds a constant input of 0.5.
Rest == 1       \* target 0 for ever
Bump == 2       \* target 0, a single target of 0.3 once the network has locked
Drift == 3      \* target 0, then 1.0 for ever once the network has locked
NaNInput == 4   \* target 0.3; the input of one call is NaN
NaNTarget == 5  \* target 0.3; the target of one call is NaN
InfInput == 6   \* target 0.3; the input of one call is +Infinity
HugeInput == 7  \* target 0.3; the input of one call is Outlier
HugeTarget == 8 \* target 0.3; three targets are 1000, +Infinity, -Infinity
Wave == 9       \* input and target alternate in sign, target +-0.3
Hard == 10      \* target alternates between 1 and -1: never learnt
Blip == 11      \* target 0, a single target of 0.15 once the window is full
NumTasks == 11
\* the call of the script at which the unusual value is supplied
EventCall == 5
\* the call of the script Blip at which the target is 0.15: the window
\* then holds 19 zeros and one error of 0.15, a mean below solvedThreshold
BlipCall == 25
\* the calls after which the network has locked under target 0
LockCalls == 100
\* step() calls explored under the script Hard
LongCalls == 502
\* step() calls explored under the script Bump: the error of the single
\* target of 0.3 has then left the window of 20
BumpCalls == 124

\* the huge outlier input: 10^5, the largest power of ten that 32 bits hold
Outlier == 10 ^ 5 * S

generator(t, n) ==
    LET half == S \div 2
        usual == [input |-> half, target |-> 3000]
    IN CASE t = Rest -> [input |-> half, target |-> 0]
         [] t = Bump -> [input |-> half,
                         target |-> IF n = LockCalls THEN 3000 ELSE 0]
         [] t = Drift -> [input |-> half,
                          target |-> IF n >= LockCalls THEN S ELSE 0]
         [] t = NaNInput -> IF n = EventCall THEN [usual EXCEPT !.input = NaN]
                            ELSE usual
         [] t = NaNTarget -> IF n = EventCall THEN [usual EXCEPT !.target = NaN]
                             ELSE usual
         [] t = InfInput -> IF n = EventCall THEN [usual EXCEPT !.input = PInf]
                            ELSE usual
         [] t = HugeInput -> IF n = EventCall THEN [usual EXCEPT !.input = Outlier]
                             ELSE usual
         [] t = HugeTarget ->
                IF n = EventCall THEN [usual EXCEPT !.target = 1000 * S]
                ELSE IF n = EventCall + 1 THEN [usual EXCEPT !.target = PInf]
                ELSE IF n = EventCall + 2 THEN [usual EXCEPT !.target = NInf]
                ELSE usual
         [] t = Wave -> IF n % 2 = 0 THEN [input |-> half, target |-> 3000]
                        ELSE [input |-> 0 - half, target |-> 0 - 3000]
         [] t = Blip -> [input |-> half,
                         target |-> IF n = BlipCall THEN 1500 ELSE 0]
         [] OTHER -> [input |-> half, target |-> IF n % 2 = 0 THEN S ELSE 0 - S]

CallLimit(t) == IF t = Hard THEN LongCalls
                ELSE IF t = Bump THEN BumpCalls ELSE MaxCalls

\* the position in the script after the call at position n: every script
\* repeats with period 2 at the latest from CallLimit - 1 on, so a position
\* beyond CallLimit is the same as the one two places before it
NextCall(t, n) == IF n >= CallLimit(t) THEN n - 1 ELSE n + 1

\* ------------------------------------------------------------ small helpers
RECURSIVE SumSeq(_)
SumSeq(w) == IF w = << >> THEN 0 ELSE Head(w) + SumSeq(Tail(w))
\* reduce((a, b) => a + b, 0) / length
Mean(w) == RoundDiv(SumSeq(w), Len(w))
\* push without the shift: the window keeps every sample
PushUncapped(w, x, cap) == Append(w, x)

\* push, then shift when longer than cap
PushCapped(w, x, cap) ==
    LET w1 == Append(w, x) IN IF Len(w1) > cap THEN Tail(w1) ELSE w1

Zeros == [i \in Neurons |-> 0]

\* ------------------------------------------------------------------- step
\* the new state of neuron i, scaled by its energy, and its new energy
NeuronUpdate(net, inputVal, i) ==
    LET N == net.currentSize
        dna == net.liveHyperparams
        sum == XAdd(SumTo([j \in 0 .. N - 1 |->
                             Mul(net.weights[Idx(i, j)], net.activations[j])], N),
                    XMul(XMul(net.inputWeights[i], inputVal), dna.inputScale))
        state == XMul(XAdd(Mul(S - dna.leak, net.activations[i]),
                           XMul(dna.leak, XTanh(XMul(sum, dna.spectral)))),
                      net.neuronEnergy[i])
    IN [state |-> state,
        energy |-> XMax(0, XMin(S, XAdd(XSub(net.neuronEnergy[i],
                                             XMul(XAbs(state), 20)), 20)))]

\* the reservoir with the updates upd of the neurons below currentSize
Updated(net, upd) ==
    [net EXCEPT
       !.prevActivations = net.activations,
       !.activations = [i \in Neurons |->
           IF i < net.currentSize THEN upd[i].state ELSE net.activations[i]],
       !.neuronEnergy = [i \in Neurons |->
           IF i < net.currentSize THEN upd[i].energy ELSE net.neuronEnergy[i]]]

\* "2. Reservoir Update": activations and neuronEnergy of the neurons below
\* currentSize; the old activations go to prevActivations.
ReservoirUpdate(net, inputVal) ==
    Updated(net, Eager([i \in 0 .. net.currentSize - 1 |->
                          NeuronUpdate(net, inputVal, i)]))

RECURSIVE XSumTo(_, _)
XSumTo(f, n) == IF n = 0 THEN 0 ELSE XAdd(XSumTo(f, n - 1), f[n - 1])

\* "3. Readout"
Readout(net) ==
    XSumTo([i \in 0 .. net.currentSize - 1 |->
              XMul(net.activations[i], net.readout[i])], net.currentSize)

\* the condition of the EXPLOSION GUARD
Exploded(absError) == IsNaN(absError) \/ absError > 50 * S

\* iterations of the regulator in the EXPLOSION GUARD
StabilizationIterations == 20

\* getMetrics(prediction, target, loss, status) with the drained log queue
getMetrics(e, prediction, target, loss, status, logs) ==
    [loss |-> loss,
     avgLoss |-> e.recentMSE,
     prediction |-> prediction,
     target |-> target,
     neuronCount |-> e.network.currentSize,
     patience |-> e.network.patienceCounter,
     spectralRadius |-> e.network.currentSpectralRadius,
     adaptationStatus |-> status,
     step |-> e.stepCount,
     dna |-> e.network.liveHyperparams,
     logs |-> logs]

\* what a call of step() did besides its result
NoProbe ==
    [aborted |-> FALSE, regulator |-> << >>, mitosis |-> << >>,
     heartbeat |-> FALSE, pruned |-> 0, deltaPrune |-> FALSE,
     hebbian |-> FALSE, strategy |-> 0 - 1]

\* a guard that hands the readout's prediction to the caller
LeakyStabilizingMetrics(e, prediction) ==
    getMetrics(e, prediction, 0, S, "STABILIZING", {"Emergency Stabilization"})

\* "return this.getMetrics(0, 0, 1.0, 'STABILIZING')" with the event logged
StabilizingMetrics(e, prediction) ==
    getMetrics(e, 0, 0, S, "STABILIZING", {"Emergency Stabilization"})

\* a guard that leaves the reservoir state as it is
KeepState(net) == net

\* "Reset state to prevent immediate re-explosion"
ResetState(net) == [net EXCEPT !.activations = Zeros, !.prevActivations = Zeros]

\* the engine after the guard: the penalty recorded in the window, the
\* regulator run (reg its outcome), the state reset
Recovering(e, absError, reg) ==
    LET penaltyError == IF IsNaN(absError) THEN 10 * S ELSE Min(absError, 10 * S)
        window == PushCapped(e.recentMSEWindow, penaltyError, 20)
    IN [e EXCEPT !.recentMSEWindow = window,
                 !.recentMSE = Mean(window),
                 !.rng = reg.rng,
                 !.network = ResetState(reg.net)]

\* the aborted tick's result
Aborted(e, prediction) ==
    [e EXCEPT
       !.metrics = StabilizingMetrics(e, prediction),
       !.probe = [NoProbe EXCEPT !.aborted = TRUE,
                                 !.regulator = <<StabilizationIterations>>]]

\* the body of the EXPLOSION GUARD; e holds the reservoir already updated
Stabilize(e, prediction, absError) ==
    Aborted(Recovering(e, absError,
                       applySpectralNormalization([net |-> e.network, rng |-> e.rng],
                                                  StabilizationIterations)),
            prediction)

\* n / d rounded to nearest, for d > 0 and any n
SRound(n, d) == Sgn(n) * RoundDiv(Abs(n), d)

\* logEvent(msg): only the kind of the message is kept
logEvent(e, msg) == [e EXCEPT !.logQueue = e.logQueue \cup {msg}]

RECURSIVE NormalizeRows(_, _)
\* for (const rowIdx of modifiedRows) normalizeSingleRow(net, rowIdx, spectral)
NormalizeRows(net, rows) ==
    IF rows = {} THEN net
    ELSE LET r == CHOOSE x \in rows : \A y \in rows : x <= y
         IN After(net.weights,
                  NormalizeRows(normalizeSingleRow(net, r, net.liveHyperparams.spectral),
                                rows \ {r}))

\* a fresh weight (Math.random() * 2 - 1) * scale from the next draw
FreshWeight(rng, scale) == Mul(Draw(rng, 1) * 2 - S, scale)

\* a refusal placed after the first Math.random() of performMitosis
RefuseMitosisLate(e) ==
    [e |-> [e EXCEPT !.rng = NextRandom(e.rng),
                     !.probe.mitosis = Append(e.probe.mitosis, FALSE)],
     ok |-> FALSE]

\* performMitosis at capacity: "return false" before anything is touched
RefuseMitosis(e) ==
    [e |-> [e EXCEPT !.probe.mitosis = Append(e.probe.mitosis, FALSE)],
     ok |-> FALSE]

\* one side of the "Connect" loop: with probability prob the cell gets a
\* fresh weight; [weights, rng, hit]
Connect(weights, rng, prob, cell, spectral) ==
    IF Draw(rng, 1) < prob
    THEN [weights |-> [weights EXCEPT ![cell] = FreshWeight(NextRandom(rng), spectral)],
          rng |-> SkipRandom(rng, 2), hit |-> TRUE]
    ELSE [weights |-> weights, rng |-> SkipRandom(rng, 1), hit |-> FALSE]

RECURSIVE MitosisWiring(_, _, _, _, _, _)
\* the "Connect" loop of performMitosis from candidate i on;
\* w = [weights, rows, rng]
MitosisWiring(w, acts, density, spectral, newIdx, i) ==
    IF i > newIdx THEN w
    ELSE
      LET connectionProb == Mul(density, S + Tanh(2 * Abs(acts[i])))
          inbound == Connect(w.weights, w.rng, connectionProb, Idx(newIdx, i),
                             spectral)
          outbound == Connect(inbound.weights, inbound.rng, connectionProb,
                              Idx(i, newIdx), spectral)
      IN After(w, MitosisWiring(
                      [weights |-> outbound.weights,
                       rows |-> IF outbound.hit THEN w.rows \cup {i} ELSE w.rows,
                       rng |-> outbound.rng],
                      acts, density, spectral, newIdx, i + 1))

\* the network with the new neuron at index currentSize, not yet wired
Newborn(e) ==
    LET net == e.network
        newIdx == net.currentSize
        dna == net.liveHyperparams
        randomIn == (IF Draw(e.rng, 2) < S \div 2 THEN 1 ELSE 0 - 1) * dna.inputScale
    IN [net EXCEPT
          !.currentSize = newIdx + 1,
          !.activations[newIdx] = 0,
          !.prevActivations[newIdx] = 0,
          !.neuronEnergy[newIdx] = S,
          !.readout[newIdx] = 0,
          !.neuronTypes[newIdx] = IF Draw(e.rng, 1) < 8000 THEN 1 ELSE 0 - 1,
          !.inputWeights[newIdx] =
              IF XGt(XAbs(e.lastInput), 1000)
              THEN Sgn(e.lastInput) * (dna.inputScale \div 2)
              ELSE randomIn]

\* the new neuron wired (wired = [weights, rows, rng]) and the touched rows
\* normalized; [net, rng]
Settled(net1, wired) ==
    [net |-> NormalizeRows([net1 EXCEPT !.weights = wired.weights], wired.rows),
     rng |-> wired.rng]

\* the result of a successful mitosis, reg being the regulator's outcome
Grown(e, reg) ==
    [e |-> [logEvent(e, "MITOSIS") EXCEPT
              !.network = reg.net,
              !.rng = reg.rng,
              !.probe.mitosis = Append(e.probe.mitosis, TRUE)],
     ok |-> TRUE]

\* performMitosis(net): [e, ok] with ok the returned boolean
performMitosis(e) ==
    IF e.network.currentSize >= MaxNeurons THEN RefuseMitosis(e)
    ELSE Grown(e, applySpectralNormalization(
                      Settled(Newborn(e),
                              MitosisWiring([weights |-> e.network.weights,
                                             rows |-> {e.network.currentSize},
                                             rng |-> SkipRandom(e.rng, 2)],
                                            [e.network.activations EXCEPT
                                               ![e.network.currentSize] = 0],
                                            e.network.currentTargetDensity,
                                            e.network.liveHyperparams.spectral,
                                            e.network.currentSize, 0)), 1))

\* a loop that tries one random cell: t = [weights, rows, added, rng] after
\* a fresh weight of the given scale went to the cell if it was free; three
\* numbers are drawn then, two otherwise
TryCell(t, row, col, scale) ==
    IF t.weights[Idx(row, col)] = 0
    THEN [weights |-> [t.weights EXCEPT ![Idx(row, col)] =
                          FreshWeight(SkipRandom(t.rng, 2), scale)],
          rows |-> t.rows \cup {row}, added |-> t.added + 1,
          rng |-> SkipRandom(t.rng, 3)]
    ELSE [weights |-> t.weights, rows |-> t.rows, added |-> t.added,
          rng |-> SkipRandom(t.rng, 2)]

RECURSIVE RegrowLoop(_, _, _, _)
\* the loop of regrowSynapses with k iterations left
RegrowLoop(t, N, spectral, k) ==
    IF k = 0 THEN t
    ELSE After(t, RegrowLoop(TryCell(t, (Draw(t.rng, 1) * N) \div S,
                                     (Draw(t.rng, 2) * N) \div S, spectral \div 10),
                             N, spectral, k - 1))

\* the end of regrowSynapses: the touched rows are normalized
Regrew(st, grown) ==
    [net |-> NormalizeRows([st.net EXCEPT
                              !.weights = grown.weights,
                              !.totalRegrown = st.net.totalRegrown + grown.added],
                           grown.rows),
     rng |-> grown.rng]

\* regrowSynapses(net, count); st = [net, rng]
regrowSynapses(st, count) ==
    LET dynamicLimit == Max(50, Min(500, count \div 10))
        limit == Min(count, dynamicLimit)
    IN Regrew(st, RegrowLoop([weights |-> st.net.weights, rows |-> {},
                              added |-> 0, rng |-> st.rng],
                             st.net.currentSize, st.net.liveHyperparams.spectral,
                             Max(0, limit)))

RECURSIVE Select(_, _, _)
\* the neurons below n whose |activation| > 0.1 (active) or not, in order
Select(acts, active, n) ==
    IF n = 0 THEN << >>
    ELSE IF (Abs(acts[n - 1]) > 1000) = active
         THEN Append(Select(acts, active, n - 1), n - 1)
         ELSE Select(acts, active, n - 1)

RECURSIVE RewireLoop(_, _, _, _, _)
\* "Strategy 1" loop of performSmartRewiring with k iterations left
RewireLoop(t, activeIndices, inactiveIndices, spectral, k) ==
    IF k = 0 THEN t
    ELSE
      LET source == activeIndices[(Draw(t.rng, 1) * Len(activeIndices)) \div S + 1]
          target == inactiveIndices[(Draw(t.rng, 2) * Len(inactiveIndices)) \div S + 1]
      IN After(t, RewireLoop(TryCell(t, target, source, spectral \div 100),
                             activeIndices, inactiveIndices, spectral, k - 1))

\* the end of performSmartRewiring: st2 = [net, rng] after the fallback, the
\* rows engineered (wired = [weights, rows, added, rng]) normalized
Rewired(e, wired, st2) ==
    IF wired.added > 0
    THEN [logEvent(e, "ENGINEERING") EXCEPT
            !.network = NormalizeRows(st2.net, wired.rows),
            !.rng = st2.rng]
    ELSE [e EXCEPT !.network = st2.net, !.rng = st2.rng]

\* "Strategy 2: Fallback to Random": regrowSynapses for what is missing
Fallback(e, limit, wired) ==
    Rewired(e, wired,
            IF wired.added < limit
            THEN regrowSynapses([net |-> [e.network EXCEPT !.weights = wired.weights],
                                 rng |-> wired.rng], limit - wired.added)
            ELSE [net |-> [e.network EXCEPT !.weights = wired.weights],
                  rng |-> wired.rng])

\* performSmartRewiring(net, count)
performSmartRewiring(e, count) ==
    LET net == e.network
        activeIndices == Select(net.activations, TRUE, net.currentSize)
        inactiveIndices == Select(net.activations, FALSE, net.currentSize)
    IN Fallback(e, Min(count, 50),
                IF activeIndices # << >> /\ inactiveIndices # << >>
                THEN RewireLoop([weights |-> net.weights, rows |-> {}, added |-> 0,
                                 rng |-> e.rng],
                                activeIndices, inactiveIndices,
                                net.liveHyperparams.spectral, Max(0, Min(count, 50)))
                ELSE [weights |-> net.weights, rows |-> {}, added |-> 0,
                      rng |-> e.rng])

\* one cell of deltaBasedPrune; t = [weights, pruned, rng]
PruneCell(t, attention, N, beta, c) ==
    LET neuronAttention == attention[RowOf(c)]
        w == t.weights[c]
        candidate == /\ ColOf(c) < N
                     /\ neuronAttention * N >= S
                     /\ w # 0
                     /\ Abs(w) < pruneThreshold
        hit == candidate /\ Draw(t.rng, 1) < Mul(Mul(neuronAttention, beta), S \div 2)
    IN [weights |-> IF hit THEN [t.weights EXCEPT ![c] = 0] ELSE t.weights,
        pruned |-> IF hit THEN t.pruned + 1 ELSE t.pruned,
        rng |-> IF candidate THEN NextRandom(t.rng) ELSE t.rng]

RECURSIVE DeltaPruneLoop(_, _, _, _, _, _)
\* the loops of deltaBasedPrune from cell c on
DeltaPruneLoop(t, attention, N, beta, targetPruneCount, c) ==
    IF c > Idx(N - 1, N - 1) \/ t.pruned >= targetPruneCount THEN t
    ELSE DeltaPruneLoop(PruneCell(t, attention, N, beta, c), attention, N, beta,
                        targetPruneCount, c + 1)

\* the end of deltaBasedPrune; r = [weights, pruned, rng]
DeltaPruned(e, r) ==
    [e EXCEPT !.network.weights = r.weights,
              !.rng = r.rng,
              !.probe.deltaPrune = TRUE,
              !.probe.pruned = e.probe.pruned + r.pruned,
              !.logQueue = IF r.pruned > 0
                           THEN e.logQueue \cup {"DDL-PRUNE Removed"}
                           ELSE e.logQueue]

\* deltaBasedPrune(net, attention, beta)
deltaBasedPrune(e, attention, beta) ==
    DeltaPruned(e, DeltaPruneLoop([weights |-> e.network.weights, pruned |-> 0,
                                   rng |-> e.rng],
                                  attention, e.network.currentSize, beta,
                                  Mul(e.network.currentSize * beta, 500) \div S, 0))

\* the LV selection check of pruneSynapses for the synapse in cell c
Weak(net, c) ==
    LET i == RowOf(c)
        j == ColOf(c)
        qualityBonus == Abs(net.readout[i]) \div 2
        diversityBonus == IF net.neuronTypes[i] # net.neuronTypes[j] THEN 50 ELSE 0
        engramBonus == Mul(net.engramTrace[c], 500)
    IN /\ i < net.currentSize /\ j < net.currentSize
       /\ net.weights[c] # 0
       /\ Abs(net.weights[c]) + qualityBonus + diversityBonus + engramBonus
            < pruneThreshold

\* the selection of pruneSynapses applied: the weak synapses are removed
Cull(e, weak) ==
    [e EXCEPT
       !.network.weights = [c \in Cells |->
                              IF c \in weak THEN 0 ELSE e.network.weights[c]],
       !.network.engramTrace = [c \in Cells |->
                              IF c \in weak THEN 0 ELSE e.network.engramTrace[c]],
       !.probe.heartbeat = TRUE,
       !.probe.pruned = e.probe.pruned + Cardinality(weak),
       !.logQueue = IF weak # {} THEN e.logQueue \cup {"PRUNE"} ELSE e.logQueue]

\* a heartbeat that prunes whatever the error is
pruneSynapsesUnguarded(e) == Cull(e, {c \in Cells : Weak(e.network, c)})

\* pruneSynapses(net): nothing is pruned while the error is above unlockThreshold
pruneSynapses(e) ==
    IF e.recentMSE > unlockThreshold THEN [e EXCEPT !.probe.heartbeat = TRUE]
    ELSE Cull(e, {c \in Cells : Weak(e.network, c)})

\* applySupervisedHebbian(net, error, learningRate); learningRate = lr / 10,
\* lr in units of 1 / LRS
applySupervisedHebbian(net, error, lr) ==
    LET N == net.currentSize
        clampedError == Clamp(0 - S, S, error)
        localError(i) == Mul(clampedError, net.feedbackWeights[i])
        touched(c) == /\ RowOf(c) < N /\ ColOf(c) < N
                      /\ Abs(localError(RowOf(c))) >= 10
                      /\ net.weights[c] # 0
        \* delta in units of 1 / (10 * LRS), then clamped in units of 1 / S
        delta(c) ==
          LET x == net.prevActivations[ColOf(c)]
              drive == MulDiv(MulDiv(lr, localError(RowOf(c)), S), x, S)
              decay == SRound(MulDiv(lr, net.weights[c], S), 1000)
          IN Clamp(0 - 100, 100, SRound(drive - decay, 1000))
    IN [net EXCEPT
          !.weights = [c \in Cells |->
                         IF touched(c) THEN net.weights[c] + delta(c)
                         ELSE net.weights[c]],
          !.engramTrace = [c \in Cells |->
                         IF touched(c)
                         THEN Min(S, RoundDiv(net.engramTrace[c] * 99, 100)
                                     + Abs(delta(c)) * 10)
                         ELSE net.engramTrace[c]]]

\* selectStrategy with the persistence check ahead of the panic override
selectStrategyLockFirst(mc, currentLoss, sel) ==
    LET n == mc.stepCounter + 1
        mc1 == [mc EXCEPT !.stepCounter = n]
    IN IF n < warmupSteps
       THEN [mc |-> mc1, strategyId |-> EXPLOIT, sampled |-> FALSE]
       ELSE IF n - mc.lastStrategyChangeStep < strategyLockDuration
       THEN [mc |-> mc1, strategyId |-> mc.lastSelectedStrategy, sampled |-> FALSE]
       ELSE IF currentLoss > S \div 2
       THEN [mc |-> [mc1 EXCEPT !.lastSelectedStrategy = STABILIZE,
                                !.lastStrategyChangeStep = n],
             strategyId |-> STABILIZE, sampled |-> FALSE]
       ELSE [mc |-> [mc1 EXCEPT !.lastSelectedStrategy = sel,
                                !.lastStrategyChangeStep = n],
             strategyId |-> sel, sampled |-> TRUE]

\* selectStrategy holding a strategy one call longer
selectStrategyLongLock(mc, currentLoss, sel) ==
    LET n == mc.stepCounter + 1
        mc1 == [mc EXCEPT !.stepCounter = n]
    IN IF n < warmupSteps
       THEN [mc |-> mc1, strategyId |-> EXPLOIT, sampled |-> FALSE]
       ELSE IF currentLoss > S \div 2
       THEN [mc |-> [mc1 EXCEPT !.lastSelectedStrategy = STABILIZE,
                                !.lastStrategyChangeStep = n],
             strategyId |-> STABILIZE, sampled |-> FALSE]
       ELSE IF n - mc.lastStrategyChangeStep <= strategyLockDuration
       THEN [mc |-> mc1, strategyId |-> mc.lastSelectedStrategy, sampled |-> FALSE]
       ELSE [mc |-> [mc1 EXCEPT !.lastSelectedStrategy = sel,
                                !.lastStrategyChangeStep = n],
             strategyId |-> sel, sampled |-> TRUE]

\* selectStrategy without the persistence check
selectStrategyNoLock(mc, currentLoss, sel) ==
    LET n == mc.stepCounter + 1
        mc1 == [mc EXCEPT !.stepCounter = n]
    IN IF n < warmupSteps
       THEN [mc |-> mc1, strategyId |-> EXPLOIT, sampled |-> FALSE]
       ELSE IF currentLoss > S \div 2
       THEN [mc |-> [mc1 EXCEPT !.lastSelectedStrategy = STABILIZE,
                                !.lastStrategyChangeStep = n],
             strategyId |-> STABILIZE, sampled |-> FALSE]
       ELSE [mc |-> [mc1 EXCEPT !.lastSelectedStrategy = sel,
                                !.lastStrategyChangeStep = n],
             strategyId |-> sel, sampled |-> TRUE]

\* selectStrategy(features, currentLoss) of BicameralMetaController: the
\* counters that decide between warm-up, panic, persistence and sampling;
\* sel is the strategy the softmax sample yields when one is drawn.
selectStrategy(mc, currentLoss, sel) ==
    LET n == mc.stepCounter + 1
        mc1 == [mc EXCEPT !.stepCounter = n]
    IN IF n < warmupSteps
       THEN [mc |-> mc1, strategyId |-> EXPLOIT, sampled |-> FALSE]
       ELSE IF currentLoss > S \div 2
       THEN [mc |-> [mc1 EXCEPT !.lastSelectedStrategy = STABILIZE,
                                !.lastStrategyChangeStep = n],
             strategyId |-> STABILIZE, sampled |-> FALSE]
       ELSE IF n - mc.lastStrategyChangeStep < strategyLockDuration
       THEN [mc |-> mc1, strategyId |-> mc.lastSelectedStrategy, sampled |-> FALSE]
       ELSE [mc |-> [mc1 EXCEPT !.lastSelectedStrategy = sel,
                                !.lastStrategyChangeStep = n],
             strategyId |-> sel, sampled |-> TRUE]

\* "Update Readouts": LMS with the delta clamped to +-0.1
UpdateReadouts(net, currentLR, error) ==
    [net EXCEPT !.readout =
        [i \in Neurons |->
           IF i < net.currentSize
           THEN net.readout[i]
                + Clamp(0 - 1000, 1000,
                        SRound(MulDiv(MulDiv(currentLR, error, S),
                                      net.activations[i], S), 100))
           ELSE net.readout[i]]]

\* "GEOMETRIC SMOOTHING": the live learning rate moves towards the target
\* by at most 2% per step
SmoothLearningRate(live, target) ==
    IF target * 100 >= live * 102 THEN RoundDiv(live * 102, 100)
    ELSE IF target * 100 <= live * 98 THEN RoundDiv(live * 98, 100)
    ELSE target

\* "C. Apply Strategy Parameters"
ApplyStrategy(e, strategyId) ==
    LET net == e.network
        adaptiveParams == STRATEGIES[strategyId]
        currentParams == net.liveHyperparams
        stagnant == Len(net.lossWindow) >= 200 /\ net.regressionSlope = 0
        growthMultiplier == IF stagnant THEN 3 ELSE 1
        lvAlpha == IF e.stepCount < 500 THEN 3 ELSE 1
        smooth(cur, tgt) ==
            RoundDiv(cur * (10 - lvAlpha) + tgt * growthMultiplier * lvAlpha, 10)
    IN [e EXCEPT
          !.network.liveHyperparams =
              Hyper(adaptiveParams.leak, adaptiveParams.spectral,
                    adaptiveParams.inputScale,
                    SmoothLearningRate(currentParams.learningRate,
                                       adaptiveParams.learningRate),
                    smooth(currentParams.lvGrowth, adaptiveParams.lvGrowth),
                    smooth(currentParams.lvDecay, adaptiveParams.lvDecay),
                    adaptiveParams.smoothingFactor, adaptiveParams.outputGain),
          !.logQueue = IF stagnant THEN e.logQueue \cup {"OVERRIDE"}
                       ELSE e.logQueue]

\* the L-V update of currentTargetDensity without its clamp
TargetDensityUnclamped(D, change) == D + change

\* the clamped L-V update of currentTargetDensity
TargetDensity(D, change) == Max(1000, Min(5000, D + change))

\* a DDL gate that lets every positive beta act
DDLActsAlways(beta) == beta > 0

\* the DDL gate: the structural action is taken when beta exceeds 0.3
DDLActs(beta) == beta > 3000

\* the start of the unlocked branch: loss window, slope, patience, L-V
\* density and cooldown; [e, status]
Trend(e, absError) ==
    LET net == e.network
        lossWindow == PushCapped(net.lossWindow, absError, 200)
        slope == IF Len(lossWindow) >= 200
                 THEN SumSeq(SubSeq(lossWindow, 101, 200))
                      - SumSeq(SubSeq(lossWindow, 1, 100))
                 ELSE 0
        learning == slope < learningSlopeThreshold
        dna == net.liveHyperparams
        D == net.currentTargetDensity
    IN [e |-> [e EXCEPT
                 !.network.isLocked = FALSE,
                 !.network.lossWindow = lossWindow,
                 !.network.regressionSlope = slope,
                 !.network.patienceCounter =
                     IF learning THEN Max(0, net.patienceCounter - 1)
                     ELSE net.patienceCounter + 1,
                 !.network.currentTargetDensity =
                     TargetDensity(D, Mul(dna.lvGrowth, absError) - Mul(dna.lvDecay, D)),
                 !.structuralCooldown =
                     IF e.structuralCooldown > 0 THEN e.structuralCooldown - 1 ELSE 0],
        status |-> IF learning THEN "LEARNING" ELSE "STAGNANT"]

\* the exhaustion growth without line 688: no cooldown follows the mitosis
AfterExhaustionHasty(m, status) ==
    IF m.ok
    THEN [e |-> logEvent([m.e EXCEPT !.network.patienceCounter = 0], "EXHAUSTION"),
          status |-> "GROWING (EXHAUSTION)"]
    ELSE [e |-> m.e, status |-> status]

\* the outcome of a mitosis m = [e, ok] asked for by the exhaustion detector
AfterExhaustion(m, status) ==
    IF m.ok
    THEN [e |-> logEvent([m.e EXCEPT !.network.patienceCounter = 0,
                                     !.structuralCooldown = 20], "EXHAUSTION"),
          status |-> "GROWING (EXHAUSTION)"]
    ELSE [e |-> m.e, status |-> status]

\* COMBINATORIAL EXHAUSTION DETECTION; r = [e, status], N is the size at the
\* start of the step
Exhaustion(r, N) ==
    LET e == r.e
        exhaustionThreshold == Max(20 * S, N * N * e.network.currentTargetDensity * 30)
        exhausted == /\ N < 16
                     /\ \/ e.network.patienceCounter * S > exhaustionThreshold
                        \/ e.stepCount > 500
                     /\ e.recentMSE > 500
                     /\ e.structuralCooldown = 0
    IN IF exhausted THEN AfterExhaustion(performMitosis(e), r.status) ELSE r

\* the outcome of a mitosis m = [e, ok] asked for by the DDL control
AfterGrowth(m, status, beta) ==
    IF m.ok
    THEN [e |-> logEvent([m.e EXCEPT !.structuralCooldown = (200 * S) \div beta],
                         "DDL-GROW"),
          status |-> "GROWING (DDL)"]
    ELSE [e |-> m.e, status |-> status]

\* the structural action of the DDL control; e has the attention drawn
DDLAction(e, status, attention, beta, actionBias) ==
    IF ~(DDLActs(beta) /\ e.structuralCooldown = 0)
    THEN [e |-> e, status |-> status]
    ELSE IF actionBias > 3000
    THEN AfterGrowth(performMitosis(e), status, beta)
    ELSE IF actionBias < 0 - 3000
    THEN [e |-> logEvent([deltaBasedPrune(e, attention, beta) EXCEPT
                            !.structuralCooldown = (100 * S) \div beta],
                         "DDL-PRUNE"),
          status |-> "PRUNING (DDL)"]
    ELSE [e |-> [performSmartRewiring(e,
                     Mul(e.network.currentSize * beta, 100) \div S)
                   EXCEPT !.structuralCooldown = (50 * S) \div beta],
          status |-> "REWIRING (DDL)"]

\* DDL-INSPIRED STRUCTURAL CONTROL; r = [e, status].  The attention of every
\* neuron is one random number.
StructuralControl(r, strategyId) ==
    LET preset == STRATEGIES[strategyId]
        beta == (preset.lvGrowth + preset.lvDecay) * 10
        actionBias == IF strategyId \in {EXPLORE, RESET} THEN 8000
                      ELSE IF strategyId = STABILIZE THEN 0 - 8000 ELSE 0
    IN DDLAction([r.e EXCEPT !.rng = SkipRandom(r.e.rng, MaxNeurons)], r.status,
                 [i \in Neurons |-> Draw(r.e.rng, i + 1)], beta, actionBias)

\* the regrowth block applied, st = [net, rng] being what regrowSynapses left
Regrown(r, st) ==
    [e |-> [r.e EXCEPT !.network = st.net, !.rng = st.rng],
     status |-> IF r.status \in {"GROWING (EXHAUSTION)", "GROWING (DDL)"}
                THEN r.status ELSE "GROWING_SYNAPSES"]

\* Synapse Regrowth; r = [e, status], N is the size at the start of the step
Regrowth(r, N) ==
    LET net == r.e.network
        targetConns == (N * N * net.currentTargetDensity) \div S
        active == Cardinality({c \in Cells : RowOf(c) < N /\ net.weights[c] # 0})
    IN IF active < targetConns /\ r.e.structuralCooldown < 100
       THEN Regrown(r, regrowSynapses([net |-> net, rng |-> r.e.rng],
                                      targetConns - active))
       ELSE r

\* Synapse Pruning (Heartbeat); r = [e, status]
Heartbeat(r) ==
    IF r.e.stepCount % 500 = 0 /\ r.e.structuralCooldown = 0
    THEN [e |-> pruneSynapses(r.e), status |-> r.status]
    ELSE r

\* the last branch of "6. Structural Adaptation": the network is not locked
\* and not solved.  N is the size at the start of the step.
Unlocked(e, absError, N, strategyId) ==
    Heartbeat(Regrowth(StructuralControl(Exhaustion(Trend(e, absError), N),
                                         strategyId), N))

\* the lock logic with the unlocking tick going on into the unlocked branch
StructuralAdaptationLoose(e, absError, N, strategyId) ==
    IF e.recentMSE < solvedThreshold
    THEN IF e.solvedGracePeriod + 1 >= 100
         THEN [e |-> [e EXCEPT !.solvedGracePeriod = e.solvedGracePeriod + 1,
                               !.network.isLocked = TRUE,
                               !.network.patienceCounter = 0],
               status |-> "SOLVED"]
         ELSE [e |-> [e EXCEPT !.solvedGracePeriod = e.solvedGracePeriod + 1],
               status |-> "CONVERGING"]
    ELSE IF e.network.isLocked /\ e.recentMSE <= unlockThreshold
    THEN [e |-> [e EXCEPT !.solvedGracePeriod = 0], status |-> "SOLVED"]
    ELSE Unlocked([e EXCEPT !.solvedGracePeriod = 0], absError, N, strategyId)

\* the lock logic without the grace period
StructuralAdaptationEager(e, absError, N, strategyId) ==
    IF e.recentMSE < solvedThreshold
    THEN [e |-> [e EXCEPT !.solvedGracePeriod = e.solvedGracePeriod + 1,
                          !.network.isLocked = TRUE,
                          !.network.patienceCounter = 0],
          status |-> "SOLVED"]
    ELSE IF e.network.isLocked /\ e.recentMSE > unlockThreshold
    THEN [e |-> logEvent([e EXCEPT !.solvedGracePeriod = 0,
                                   !.network.isLocked = FALSE], "UNLOCK"),
          status |-> "UNLOCKED"]
    ELSE IF e.network.isLocked
    THEN [e |-> [e EXCEPT !.solvedGracePeriod = 0], status |-> "SOLVED"]
    ELSE Unlocked([e EXCEPT !.solvedGracePeriod = 0], absError, N, strategyId)

\* "6. Structural Adaptation (L-V + Growth)": the lock logic
StructuralAdaptation(e, absError, N, strategyId) ==
    IF e.recentMSE < solvedThreshold
    THEN IF e.solvedGracePeriod + 1 >= 100
         THEN [e |-> [e EXCEPT !.solvedGracePeriod = e.solvedGracePeriod + 1,
                               !.network.isLocked = TRUE,
                               !.network.patienceCounter = 0],
               status |-> "SOLVED"]
         ELSE [e |-> [e EXCEPT !.solvedGracePeriod = e.solvedGracePeriod + 1],
               status |-> "CONVERGING"]
    ELSE IF e.network.isLocked /\ e.recentMSE > unlockThreshold
    THEN [e |-> logEvent([e EXCEPT !.solvedGracePeriod = 0,
                                   !.network.isLocked = FALSE], "UNLOCK"),
          status |-> "UNLOCKED"]
    ELSE IF e.network.isLocked
    THEN [e |-> [e EXCEPT !.solvedGracePeriod = 0], status |-> "SOLVED"]
    ELSE Unlocked([e EXCEPT !.solvedGracePeriod = 0], absError, N, strategyId)

\* "D. Adaptive Spectral Regulation" (every step), reg being its outcome,
\* and the strategy logged every 50 steps
Tuned(e, reg) ==
    [e EXCEPT !.network = reg.net,
              !.rng = reg.rng,
              !.logQueue = IF e.stepCount % 50 = 0
                           THEN e.logQueue \cup {"STRATEGY"} ELSE e.logQueue]

\* the regulator run on the engine with the strategy applied
Regulate(e) ==
    Tuned(e, applySpectralNormalization([net |-> e.network, rng |-> e.rng], 1))

\* "5. Bicameral Control": the choice of the controller (which draws one
\* random number for a sample) is applied, the regulator runs once
Control(e, choice) ==
    Regulate(ApplyStrategy(
        [e EXCEPT !.metaController = choice.mc,
                  !.rng = IF choice.sampled THEN NextRandom(e.rng) ELSE e.rng,
                  !.probe.strategy = choice.strategyId,
                  !.probe.regulator = <<1>>], choice.strategyId))

\* the end of step(): stepCount++ and the metrics with the drained log;
\* r = [e, status]
Finish(r, prediction, target, absError) ==
    LET e5 == [r.e EXCEPT !.stepCount = r.e.stepCount + 1]
    IN [e5 EXCEPT !.metrics = getMetrics(e5, prediction, target, absError,
                                         r.status, e5.logQueue),
                  !.logQueue = {}]

\* the frequency features of the error signal, <<errorLowFreq, errorMidFreq,
\* errorHighFreq>>, computed from the recent-error window w as it is after
\* the push of the tick
errorFeatures(w) ==
    LET errorWindowSize == Min(128, Len(w))
    IN IF errorWindowSize >= 32
       THEN LET errorSnippet == SubSeq(w, Len(w) - errorWindowSize + 1, Len(w))
                half == errorWindowSize \div 2
                firstHalfErr == RoundDiv(SumSeq(SubSeq(errorSnippet, 1, half)), half)
                secondHalfErr ==
                    RoundDiv(SumSeq(SubSeq(errorSnippet, half + 1, errorWindowSize)),
                             half)
                errMean == Mean(errorSnippet)
                errZeroCrossings ==
                    Cardinality({i \in 2 .. errorWindowSize :
                                   Sgn(errorSnippet[i] - errMean)
                                     * Sgn(errorSnippet[i - 1] - errMean) < 0})
                errDiffs == [i \in 1 .. errorWindowSize - 1 |->
                               errorSnippet[i + 1] - errorSnippet[i]]
                errDiffMean == SRound(SumSeq(errDiffs), Len(errDiffs))
                errDiffVar ==
                    RoundDiv(SumSeq([i \in 1 .. Len(errDiffs) |->
                                       Mul(errDiffs[i] - errDiffMean,
                                           errDiffs[i] - errDiffMean)]),
                             Len(errDiffs))
            IN << Tanh(Clamp(0 - 3 * S, 3 * S, secondHalfErr - firstHalfErr) * 20),
                  Tanh((RoundDiv(errZeroCrossings * 8 * S, errorWindowSize) - S) * 2),
                  Tanh(Min(errDiffVar, 3 * S) * 100) >>
       ELSE <<0, 0, 0>>

\* the tick learning at the live rate whatever the recent error
LearnUnfrozen(e, target, prediction, error, absError, sel) ==
    LET window == PushCapped(e.recentMSEWindow, absError, 20)
        mse == Mean(window)
        net == e.network
        currentLR == net.liveHyperparams.learningRate
        hebbian == ~net.isLocked /\ currentLR > 100
        choice == selectStrategy(e.metaController, mse, sel)
    IN Finish(
         StructuralAdaptation(
           Control([e EXCEPT
                      !.recentMSEWindow = window,
                      !.prevRecentMSE = e.recentMSE,
                      !.recentMSE = mse,
                      !.network =
                          IF hebbian
                          THEN applySupervisedHebbian(
                                   UpdateReadouts(net, currentLR, error), error,
                                   currentLR)
                          ELSE UpdateReadouts(net, currentLR, error),
                      !.probe = [NoProbe EXCEPT !.hebbian = hebbian]],
                   choice),
           absError, net.currentSize, choice.strategyId),
         prediction, target, absError)

\* step() after the EXPLOSION GUARD has let the tick pass
Learn(e, target, prediction, error, absError, sel) ==
    LET window == PushCapped(e.recentMSEWindow, absError, 20)
        mse == Mean(window)
        net == e.network
        currentLR == IF mse < solvedThreshold THEN 0
                     ELSE net.liveHyperparams.learningRate
        hebbian == ~net.isLocked /\ currentLR > 100
        choice == selectStrategy(e.metaController, mse, sel)
    IN Finish(
         StructuralAdaptation(
           Control([e EXCEPT
                      !.recentMSEWindow = window,
                      !.prevRecentMSE = e.recentMSE,
                      !.recentMSE = mse,
                      !.network =
                          IF hebbian
                          THEN applySupervisedHebbian(
                                   UpdateReadouts(net, currentLR, error), error,
                                   currentLR)
                          ELSE UpdateReadouts(net, currentLR, error),
                      !.probe = [NoProbe EXCEPT !.hebbian = hebbian]],
                   choice),
           absError, net.currentSize, choice.strategyId),
         prediction, target, absError)

\* step() once the reservoir is updated: "3. Readout" and the EXPLOSION GUARD
Judge(e, target, sel) ==
    LET prediction == Readout(e.network)
        error == XSub(target, prediction)
        absError == XAbs(error)
    IN IF Exploded(absError) THEN Stabilize(e, prediction, absError)
       ELSE Learn(e, target, prediction, error, absError, sel)

\* step(): one call, sel being the strategy a softmax sample would yield
step(e0, sel) ==
    LET g == generator(e0.task, e0.calls)
    IN Judge([e0 EXCEPT !.lastInput = g.input,
                        !.calls = NextCall(e0.task, e0.calls),
                        !.network = ReservoirUpdate(e0.network, g.input)],
             g.target, sel)

\* ====================================================== the E-I engine variant
\* class EvolutionaryChaosNetwork of components/TrainingStatsBar.tsx. Its
\* reservoir and readout (sections 1-4 of step) are not followed: the
\* absolute error and the neurons' activity of a tick are inputs. Its
\* metaController (./metaController) is not among the sources: what
\* stepIntelligentMutation returns is an input as well.

\* config.maxNeurons and config.initialNeurons of the instances explored
VMaxNeurons == 2
VInitialNeurons == 1
\* step() calls explored for a task of error 0 and for one of error 1
QuietCalls == 34
HardCalls == 4
\* config.pruneThreshold, patienceLimit, lvGrowth, lvDecay of the instances
VPruneThreshold == 3000
VPatienceLimit == 1
VLvGrowth == 100
VLvDecay == 1000
\* DEFAULT_CONFIG.solvedThreshold, unlockThreshold, learningSlopeThreshold
VSolvedThreshold == 100
VUnlockThreshold == 500
VLearningSlopeThreshold == 0 - 50
\* defaultParams.spectral
VSpectral == 9500

OPT_INTERVAL == 16
WINTER_PERIOD == 500
WINTER_DURATION == 50

VNeurons == 0 .. VMaxNeurons - 1
VCells == VNeurons \X VNeurons
\* the cells (i, j) with i, j < N
Within(N) == (0 .. N - 1) \X (0 .. N - 1)

\* the values a call of Math.random() yields here
VRandom == {S \div 10, (3 * S) \div 4}

Silence == "silence"
Noise == "noise"
VTasks == {Silence, Noise}
VCallLimit(t) == IF t = Silence THEN QuietCalls ELSE HardCalls
\* |target - prediction| of a tick
VErrors(t) == IF t = Silence THEN {0} ELSE {S}

RECURSIVE ExpTerms(_, _, _, _)
\* acc + term * x / k + term * x^2 / (k (k+1)) + ...
ExpTerms(x, term, k, acc) ==
    IF k > 12 THEN acc
    ELSE ExpTerms(x, MulDiv(term, x, k * S), k + 1, acc + MulDiv(term, x, k * S))

\* Math.exp(x) for x >= 0
Exp(x) == ExpTerms(x, S, 1, S)

RECURSIVE RowSum(_, _, _)
RowSum(P, i, n) == IF n = 0 THEN 0 ELSE P[<<i, n - 1>>] + RowSum(P, i, n - 1)

RECURSIVE ColSum(_, _, _)
ColSum(P, j, n) == IF n = 0 THEN 0 ELSE P[<<n - 1, j>>] + ColSum(P, j, n - 1)

\* P[idx] *= 1.0 / sum where sum > 1e-9
Factored(p, sum) == IF sum > 0 THEN MulDiv(p, S, sum) ELSE p

RowNormalization(P, N) ==
    Eager([c \in VCells |->
            IF c[1] < N /\ c[2] < N THEN Factored(P[c], RowSum(P, c[1], N)) ELSE P[c]])

ColNormalization(P, N) ==
    Eager([c \in VCells |->
            IF c[1] < N /\ c[2] < N THEN Factored(P[c], ColSum(P, c[2], N)) ELSE P[c]])

RECURSIVE SinkhornKnopp(_, _, _)
SinkhornKnopp(P, N, iterations) ==
    IF iterations = 0 THEN P
    ELSE After(P, SinkhornKnopp(ColNormalization(RowNormalization(P, N), N), N,
                                iterations - 1))

\* P = exp(|W|) on the nonzero weights
PositiveMatrix(net) ==
    Eager([c \in VCells |->
            IF c[1] < net.currentSize /\ c[2] < net.currentSize /\ net.weights[c] # 0
            THEN Exp(Abs(net.weights[c])) ELSE 0])

\* the normalized magnitudes written back without their signs
UnsignedWeights(net, P) ==
    [net EXCEPT !.weights =
        Eager([c \in VCells |->
                IF c[1] < net.currentSize /\ c[2] < net.currentSize
                THEN Mul(P[c], net.liveHyperparams.spectral)
                ELSE net.weights[c]])]

\* Weights = NormalizedStructure * Sign * SpectralScaler
SignedWeights(net, P) ==
    [net EXCEPT !.weights =
        Eager([c \in VCells |->
                IF c[1] < net.currentSize /\ c[2] < net.currentSize
                THEN Mul(P[c], net.liveHyperparams.spectral) * Sgn(net.weights[c])
                ELSE net.weights[c]])]

\* the normalization losing the signs
applySinkhornUnsigned(net, iterations) ==
    UnsignedWeights(net, SinkhornKnopp(PositiveMatrix(net), net.currentSize, iterations))

applySinkhornStability(net, iterations) ==
    SignedWeights(net, SinkhornKnopp(PositiveMatrix(net), net.currentSize, iterations))

\* ------------------------------------------------------------ construction

\* one cell of the initial wiring: Math.random() < density, then the
\* magnitude Math.random() * startParams.spectral
InitialDraws == {IF r1 < 2000 THEN Mul(r2, VSpectral) ELSE 0 : r1 \in VRandom, r2 \in VRandom}

\* "Create initial sparse signed connections respecting Dale's Law"
InitialWeights(types) ==
    {[c \in VCells |-> IF c \in Within(VInitialNeurons) THEN d[c] * types[c[1]] ELSE 0] :
        d \in [Within(VInitialNeurons) -> InitialDraws]}

VNetwork(types, w) ==
    [neuronTypes |-> types,
     weights |-> w,
     currentSize |-> VInitialNeurons,
     totalRegrown |-> 0,
     currentTargetDensity |-> 2000,
     patienceCounter |-> 0,
     isLocked |-> FALSE,
     lossWindow |-> << >>,
     neuronEnergy |-> [i \in VNeurons |-> S],
     isWinter |-> FALSE,
     winterTimer |-> 0,
     epochCounter |-> 0,
     liveHyperparams |-> [spectral |-> VSpectral, lvGrowth |-> VLvGrowth,
                          lvDecay |-> VLvDecay],
     optimizer |-> [timer |-> 0, baselineLoss |-> S, currentLossAcc |-> 0,
                    samples |-> 0, lastParam |-> "", lastDelta |-> 0]]

\* the engine variant after its constructor, for a task t
VConstructed(t) ==
    UNION {{[task |-> t, network |-> VNetwork(types, w), avgLossBuffer |-> S,
             stepCount |-> 0, did |-> {}] : w \in InitialWeights(types)} :
             types \in [VNeurons -> {1, 0 - 1}]}

\* ----------------------------------------------------------------- mitosis

RECURSIVE CountE(_, _)
CountE(types, n) ==
    IF n = 0 THEN 0 ELSE (IF types[n - 1] = 1 THEN 1 ELSE 0) + CountE(types, n - 1)

RECURSIVE MostActive(_, _, _, _)
\* the first neuron of the largest activity above 0, neuron 0 if there is none
MostActive(act, n, i, best) ==
    IF i = n THEN best.idx
    ELSE MostActive(act, n, i + 1,
                    IF act[i] > best.max THEN [idx |-> i, max |-> act[i]] ELSE best)

\* the new neuron's row and column; perturb and inherit are the draws of
\* Math.random() for each existing neuron
Cloned(net, parentIdx, newType, perturb, inherit) ==
    LET N == net.currentSize
        spectral == net.liveHyperparams.spectral
    IN Eager([c \in VCells |->
         IF c[1] = N /\ c[2] < N /\ net.weights[<<parentIdx, c[2]>>] # 0
         THEN Min(Mul(Abs(net.weights[<<parentIdx, c[2]>>]),
                      S + (perturb[c[2]] - S \div 2) \div 10),
                  spectral \div 2) * newType
         ELSE IF c[2] = N /\ c[1] < N /\ net.weights[<<c[1], parentIdx>>] # 0
                 /\ inherit[c[1]] < 3000
         THEN (Abs(net.weights[<<c[1], parentIdx>>]) \div 5) * net.neuronTypes[c[1]]
         ELSE net.weights[c]])

NewNeuronType(net) ==
    IF CountE(net.neuronTypes, net.currentSize) * 10 > 8 * net.currentSize
    THEN 0 - 1 ELSE 1

VPerformMitosis(net, parentIdx, perturb, inherit) ==
    applySinkhornStability(
        [net EXCEPT !.neuronTypes[net.currentSize] = NewNeuronType(net),
                    !.weights = Cloned(net, parentIdx, NewNeuronType(net),
                                       perturb, inherit),
                    !.neuronEnergy[net.currentSize] = S \div 2,
                    !.currentSize = net.currentSize + 1],
        10)

\* --------------------------------------------------------------- optimizer

ParamKeys == {"leak", "spectral", "inputScale", "learningRate",
              "smoothingFactor", "lvGrowth", "lvDecay"}

\* PARAM_BASE_STEPS of the hyperparameters followed here
BaseStep(p) ==
    IF p = "spectral" THEN 500
    ELSE IF p = "lvGrowth" THEN 500
    ELSE IF p = "lvDecay" THEN 20
    ELSE 0

Followed == {"spectral", "lvGrowth", "lvDecay"}

\* what stepIntelligentMutation can return
Mutations ==
    {[shouldMutate |-> FALSE, param |-> "", direction |-> 1]}
    \cup {[shouldMutate |-> TRUE, param |-> p, direction |-> d] :
            p \in ParamKeys, d \in {1, 0 - 1}}

Snap(v, unit) == RoundDiv(v, unit) * unit

\* hyperparameter p moved by delta
Moved(hp, p, delta) == IF p \in Followed THEN [hp EXCEPT ![p] = hp[p] + delta] ELSE hp

\* "Clamp and SNAP to clean decimals"
Clamped(hp) ==
    [spectral |-> Snap(Clamp(1000, 20000, hp.spectral), 100),
     lvGrowth |-> Snap(Clamp(100, S, hp.lvGrowth), 100),
     lvDecay |-> Snap(Clamp(1, 1000, hp.lvDecay), 10)]

\* "1. Evaluate Previous Mutation (Safety Check)"
Evaluated(net, currentAvg) ==
    IF net.optimizer.lastParam # ""
    THEN IF currentAvg < net.optimizer.baselineLoss
         THEN [net EXCEPT !.optimizer.baselineLoss = currentAvg]
         ELSE [net EXCEPT !.liveHyperparams =
                   Moved(net.liveHyperparams, net.optimizer.lastParam,
                         0 - net.optimizer.lastDelta)]
    ELSE [net EXCEPT !.optimizer.baselineLoss = currentAvg]

\* "3. Apply New Mutation" and "Reset Batch"
Mutated(net, m) ==
    IF m.shouldMutate
    THEN [net EXCEPT !.liveHyperparams =
                        Clamped(Moved(net.liveHyperparams, m.param,
                                      (IF m.direction > 0 THEN 1 ELSE 0 - 1)
                                        * BaseStep(m.param))),
                     !.optimizer = [timer |-> 0, baselineLoss |-> net.optimizer.baselineLoss,
                                    currentLossAcc |-> 0, samples |-> 0,
                                    lastParam |-> m.param,
                                    lastDelta |-> (IF m.direction > 0 THEN 1 ELSE 0 - 1)
                                                    * BaseStep(m.param)]]
    ELSE [net EXCEPT !.optimizer = [timer |-> 0, baselineLoss |-> net.optimizer.baselineLoss,
                                    currentLossAcc |-> 0, samples |-> 0,
                                    lastParam |-> "", lastDelta |-> 0]]

\* opt.timer++, opt.currentLossAcc += absError, opt.samples++
Accumulated(net, absError) ==
    [net EXCEPT !.optimizer.timer = @ + 1,
                !.optimizer.currentLossAcc = @ + absError,
                !.optimizer.samples = @ + 1]

\* the optimizer's part of a tick; m is the metaController's answer
Optimized(net, m) ==
    IF net.optimizer.timer >= OPT_INTERVAL
    THEN Mutated(Evaluated(net, net.optimizer.currentLossAcc \div net.optimizer.samples), m)
    ELSE net

\* ------------------------------------------------------ lock and structure

RECURSIVE SumSlice(_, _, _)
\* s[from] + ... + s[to]
SumSlice(s, from, to) == IF from > to THEN 0 ELSE s[from] + SumSlice(s, from + 1, to)

\* the window mean before this tick's error is pushed
AvgLoss(net, absError) ==
    IF Len(net.lossWindow) > 0
    THEN SumSlice(net.lossWindow, 1, Len(net.lossWindow)) \div Len(net.lossWindow)
    ELSE absError

Pushed(window, absError) ==
    IF Len(window) >= 50 THEN Append(Tail(window), absError)
    ELSE Append(window, absError)

TrendSlope(window) ==
    IF Len(window) >= 50
    THEN SumSlice(window, 1, 25) - SumSlice(window, 26, Len(window))
    ELSE 0

\* "Lock Logic (Original)"
LockLogic(net, avgLossBuffer) ==
    IF ~net.isLocked /\ avgLossBuffer < VSolvedThreshold
    THEN [net EXCEPT !.isLocked = TRUE, !.patienceCounter = 0]
    ELSE IF net.isLocked /\ avgLossBuffer > VUnlockThreshold
    THEN [net EXCEPT !.isLocked = FALSE]
    ELSE net

\* patience and the Lotka-Volterra density of an unlocked network
Selection(net, absError) ==
    [net EXCEPT
       !.patienceCounter =
           IF TrendSlope(net.lossWindow) < VLearningSlopeThreshold
           THEN Max(0, net.patienceCounter - 1) ELSE net.patienceCounter + 1,
       !.currentTargetDensity =
           Clamp(1000, S,
                 net.currentTargetDensity
                   + Mul(net.liveHyperparams.lvGrowth, net.currentTargetDensity)
                   + Mul(absError, net.currentTargetDensity)
                   - Mul(net.liveHyperparams.lvDecay,
                         Mul(net.currentTargetDensity, net.currentTargetDensity)))]

\* does the tick of this network, its lock logic done, run a mitosis
Divides(net, absError) ==
    /\ ~net.isLocked
    /\ Selection(net, absError).patienceCounter > VPatienceLimit
    /\ net.currentSize < VMaxNeurons

\* "6. Structural Adaptation" after the lock logic
Adapted(net, absError, act, perturb, inherit) ==
    IF net.isLocked THEN net
    ELSE IF Divides(net, absError)
    THEN [VPerformMitosis(Selection(net, absError),
                          MostActive(act, net.currentSize, 0, [idx |-> 0, max |-> 0]),
                          perturb, inherit)
            EXCEPT !.patienceCounter = 0]
    ELSE Selection(net, absError)

\* the epoch counter and the "Winter" extinction event
Seasons(net) ==
    LET epoch == net.epochCounter + 1
        starts == epoch % WINTER_PERIOD = 0 /\ ~net.isWinter
        timer == (IF starts THEN WINTER_DURATION ELSE net.winterTimer)
                   - (IF starts \/ net.isWinter THEN 1 ELSE 0)
    IN [net EXCEPT !.epochCounter = epoch,
                   !.isWinter = (starts \/ net.isWinter) /\ timer > 0,
                   !.winterTimer = timer]

\* per-neuron metabolic energy of the first N neurons
Metabolism(net, N, act) ==
    [net EXCEPT !.neuronEnergy =
        Eager([i \in VNeurons |->
            IF i < N THEN Clamp(1000, 2 * S, net.neuronEnergy[i] + act[i] \div 10 - 200)
            ELSE net.neuronEnergy[i]])]

\* the mean squared weight of the neighbours j-2 .. j+2 of (i, j) in row i
NeighborActivity(w, N, i, j) ==
    LET near == {nj \in 0 .. N - 1 : nj # j /\ nj >= j - 2 /\ nj <= j + 2}
        squares == [nj \in 0 .. N - 1 |-> IF nj \in near THEN Mul(w[<<i, nj>>], w[<<i, nj>>]) ELSE 0]
    IN IF near = {} THEN 0 ELSE SumTo(squares, N) \div Cardinality(near)

\* growth - predation - starvation of the weight at (i, j)
SurvivalScore(net, N, i, j) ==
    LET baseLvDecay == net.liveHyperparams.lvDecay * (IF net.isWinter THEN 3 ELSE 1)
    IN Mul(net.liveHyperparams.lvGrowth, net.neuronEnergy[i])
         - Mul(baseLvDecay, NeighborActivity(net.weights, N, i, j)) \div 2
         - Mul(baseLvDecay, S - net.neuronEnergy[i])

ShouldPrune(net, N, c) ==
    /\ c \in Within(N)
    /\ net.weights[c] # 0
    /\ SurvivalScore(net, N, c[1], c[2]) < 0
    /\ Abs(net.weights[c]) < VPruneThreshold * 2

\* "L-V Weight Update Loop": the loop reads the weights it has already cut
RECURSIVE LVLoop(_, _, _)
LVLoop(net, N, k) ==
    IF k = N * N THEN net
    ELSE LVLoop(IF ShouldPrune(net, N, <<k \div N, k % N>>)
                THEN [net EXCEPT !.weights[<<k \div N, k % N>>] = 0] ELSE net,
                N, k + 1)

\* "7. TRUE LOTKA-VOLTERRA WEIGHT DYNAMICS"
Dynamics(net, N, act) ==
    IF net.isLocked THEN Seasons(net)
    ELSE LVLoop(Metabolism(Seasons(net), N, act), N, 0)

\* ---------------------------------------------------------------- regrowth

ActiveCount(net, N) == Cardinality({c \in Within(N) : net.weights[c] # 0})

Deficit(net, N) ==
    (N * N * net.currentTargetDensity) \div S - ActiveCount(net, N)

ConnectionsToGrow(deficit) == (deficit + 9) \div 10 + 1

RECURSIVE Sprouted(_, _, _)
\* the networks after k more connections at free cells (i, j), i, j < N; the
\* loop's 100 attempts are taken to find a free cell as long as there is one
Sprouted(net, N, k) ==
    IF k = 0 \/ ActiveCount(net, N) = N * N THEN {net}
    ELSE UNION {Sprouted([net EXCEPT !.weights[c] =
                                        Mul(r, net.liveHyperparams.spectral)
                                          * net.neuronTypes[c[1]],
                                     !.totalRegrown = @ + 1],
                         N, k - 1) :
                  c \in {x \in Within(N) : net.weights[x] = 0}, r \in VRandom}

\* regrowth "regardless of lock state if deficit exists"
Resprouted(net, N) ==
    IF Deficit(net, N) > 0
    THEN {IF n.totalRegrown > net.totalRegrown
          THEN applySinkhornStability(n, 20) ELSE n :
            n \in Sprouted(net, N, ConnectionsToGrow(Deficit(net, N)))}
    ELSE {net}

\* ---------------------------------------------------------------- the tick

\* "STABILITY CONTROL: Sinkhorn Normalization"
Maintained(e) ==
    IF e.stepCount % 10 = 0 THEN applySinkhornStability(e.network, 3) ELSE e.network

\* the network when the lock logic of the tick is done
Judged(e, absError, m) ==
    LockLogic([Optimized(Accumulated(Maintained(e), absError), m)
                 EXCEPT !.lossWindow = Pushed(@, absError)],
              AvgLoss(e.network, absError))

\* what the metaController is asked at this tick
MutationsAt(e) ==
    IF e.network.optimizer.timer + 1 >= OPT_INTERVAL
    THEN Mutations ELSE {[shouldMutate |-> FALSE, param |-> "", direction |-> 1]}

\* the activities |activations[i]| of the N neurons read by this tick
ActivitiesAt(net, N) ==
    IF net.isLocked THEN {[i \in 0 .. N - 1 |-> 0]} ELSE [0 .. N - 1 -> {0, S}]

\* the draws of Math.random() a mitosis of this tick makes, one per neuron
DrawsAt(net, absError) ==
    IF Divides(net, absError) THEN [0 .. net.currentSize - 1 -> VRandom]
    ELSE {[i \in 0 .. net.currentSize - 1 |-> S \div 10]}

\* what the tick did to the recurrent weights and the hyperparameters
Deeds(e, judged, adapted, pruned, regrown) ==
    (IF e.stepCount % 10 = 0 THEN {"SINKHORN"} ELSE {})
    \cup (IF judged.liveHyperparams # e.network.liveHyperparams THEN {"MUTATION"} ELSE {})
    \cup (IF adapted.currentSize # e.network.currentSize THEN {"MITOSIS"} ELSE {})
    \cup (IF ActiveCount(pruned, e.network.currentSize)
                < ActiveCount(adapted, e.network.currentSize) THEN {"PRUNING"} ELSE {})
    \cup (IF regrown.totalRegrown # e.network.totalRegrown THEN {"REGROWTH"} ELSE {})

Ticked(e, absError, judged, adapted, pruned, regrown) ==
    [task |-> e.task,
     network |-> regrown,
     avgLossBuffer |-> AvgLoss(e.network, absError),
     stepCount |-> e.stepCount + 1,
     did |-> Deeds(e, judged, adapted, pruned, regrown)]

\* step() after the mitosis decision: dynamics, regrowth, stepCount++
Settle(e, absError, judged, adapted, pruned) ==
    {Ticked(e, absError, judged, adapted, pruned, regrown) :
        regrown \in Resprouted(pruned, e.network.currentSize)}

Grow(e, absError, judged, adapted, act) ==
    Settle(e, absError, judged, adapted,
           Dynamics(adapted, e.network.currentSize, act))

\* the engines one step() can leave, the tick's error being absError
VStepFrom(e, absError, judged) ==
    UNION {Grow(e, absError, judged,
                Adapted(judged, absError, act, perturb, inherit), act) :
             act \in ActivitiesAt(judged, e.network.currentSize),
             perturb \in DrawsAt(judged, absError),
             inherit \in DrawsAt(judged, absError)}

VStepSet(e) ==
    UNION {VStepFrom(e, absError, Judged(e, absError, m)) :
             absError \in VErrors(e.task), m \in MutationsAt(e)}

VARIABLES network, rng, recentMSEWindow, recentMSE, prevRecentMSE, stepCount,
          solvedGracePeriod, structuralCooldown, lastInput, metaController,
          task, calls, metrics, probe, view, controller, reply, ei

vars == <<network, rng, recentMSEWindow, recentMSE, prevRecentMSE, stepCount,
          solvedGracePeriod, structuralCooldown, lastInput, metaController,
          task, calls, metrics, probe, view, controller, reply, ei>>

\* the engine as one record
Engine ==
    [network |-> network, rng |-> rng, recentMSEWindow |-> recentMSEWindow,
     recentMSE |-> recentMSE, prevRecentMSE |-> prevRecentMSE,
     stepCount |-> stepCount, solvedGracePeriod |-> solvedGracePeriod,
     structuralCooldown |-> structuralCooldown, lastInput |-> lastInput,
     metaController |-> metaController, task |-> task, calls |-> calls,
     metrics |-> metrics, probe |-> probe, logQueue |-> {}]

Becomes(e) ==
    /\ network' = e.network
    /\ rng' = e.rng
    /\ recentMSEWindow' = e.recentMSEWindow
    /\ recentMSE' = e.recentMSE
    /\ prevRecentMSE' = e.prevRecentMSE
    /\ stepCount' = e.stepCount
    /\ solvedGracePeriod' = e.solvedGracePeriod
    /\ structuralCooldown' = e.structuralCooldown
    /\ lastInput' = e.lastInput
    /\ metaController' = e.metaController
    /\ task' = e.task
    /\ calls' = e.calls
    /\ metrics' = e.metrics
    /\ probe' = e.probe

SeedOf(k) == (k * 7919) % RandomModulus

\* no metrics have been returned yet
NoMetrics ==
    [loss |-> 0, avgLoss |-> S, prediction |-> 0, target |-> 0,
     neuronCount |-> InitialNeurons, patience |-> 0, spectralRadius |-> S,
     adaptationStatus |-> "NONE", step |-> 0, dna |-> CRUISE, logs |-> {}]

\* new BicameralMetaController(): the counters of selectStrategy, whether the
\* LSTM states, the eligibility traces and the strategy weights are all 0
\* (as initializeState() makes them), the reward baseline and the error
\* history
FreshController ==
    [mc |-> [stepCounter |-> 0, lastSelectedStrategy |-> 0,
             lastStrategyChangeStep |-> 0],
     lstmZero |-> TRUE, tracesZero |-> TRUE, weightsZero |-> TRUE,
     rewardBaseline |-> 0, errorHistory |-> << >>]

\* no method of the controller has been called yet
NoReply ==
    [op |-> "none", loss |-> 0, strategyId |-> 0, sampled |-> FALSE,
     prior |-> FreshController.mc]

\* the caller has not called getNetworkState()
NoView == [held |-> FALSE]

\* new EvolutionaryChaosNetwork(task): field initializers and constructor
\* no instance of the E-I variant
NoVariant == [task |-> "", stepCount |-> 0]

Init ==
    \E k \in 1 .. NumSeeds, t \in 1 .. NumTasks :
       LET c == initializeNetwork(SeedOf(k))
       IN /\ network = c.net
          /\ rng = c.rng
          /\ recentMSEWindow = << >>
          /\ recentMSE = S
          /\ prevRecentMSE = S
          /\ stepCount = 0
          /\ solvedGracePeriod = 0
          /\ structuralCooldown = 0
          /\ lastInput = 0
          /\ metaController = [stepCounter |-> 0, lastSelectedStrategy |-> 0,
                               lastStrategyChangeStep |-> 0]
          /\ task = t
          /\ calls = 0
          /\ metrics = NoMetrics
          /\ probe = NoProbe
          /\ view = NoView
          /\ controller = FreshController
          /\ reply = NoReply
          /\ ei = NoVariant

\* the strategies a softmax sample can yield at the next call: a sample is
\* drawn only when the persistence lock has run out
Samples(mc) ==
    IF mc.stepCounter + 1 - mc.lastStrategyChangeStep >= strategyLockDuration
    THEN 0 .. NUM_STRATEGIES - 1
    ELSE {EXPLORE}

\* one call of step(); stepCount is capped
Step ==
    /\ stepCount < CallLimit(task)
    /\ \E sel \in Samples(metaController) : Becomes(step(Engine, sel))
    /\ UNCHANGED <<view, controller, reply, ei>>

Next == Step

Spec == Init /\ [][Next]_vars


\* getNetworkState() returns this.network, the engine's own object: the
\* caller holds a reference, and `then` records what it showed on return.
getNetworkState ==
    /\ ~view.held
    /\ view' = [held |-> TRUE, then |-> network]
    /\ UNCHANGED <<network, rng, recentMSEWindow, recentMSE, prevRecentMSE,
                   stepCount, solvedGracePeriod, structuralCooldown, lastInput,
                   metaController, task, calls, metrics, probe, controller,
                   reply, ei>>

\* what the caller sees through the value getNetworkState() returned: the
\* object the reference points to, that is the engine's network as it is now
Seen == network

\* step() calls explored around a getNetworkState() call
ViewCalls == 12

\* step() during the first ViewCalls calls
StepView == calls < ViewCalls /\ Step

NextView == StepView \/ getNetworkState

\* a caller that calls getNetworkState() once, at any moment
SpecView == Init /\ [][NextView]_vars

\* ------------------------------------- a BicameralMetaController on its own
\* the engine and the view are left alone
EngineIdle ==
    UNCHANGED <<network, rng, recentMSEWindow, recentMSE, prevRecentMSE,
                stepCount, solvedGracePeriod, structuralCooldown, lastInput,
                metaController, task, calls, metrics, probe, view, ei>>

\* selectStrategy calls explored
MCCalls == 151
\* the losses passed to selectStrategy: 0.5 and the next number above it
Losses == {S \div 2, S \div 2 + 1}
\* rewardStrategy is called with reward 1 while the baseline is below this
BaselineCap == 250
\* recordError is called while the history is shorter than this
HistoryCap == 1

\* selectStrategy(features, currentLoss) as a whole: the LSTM states are
\* stepped; the traces are updated on the persistence and the sampling paths
SelectStrategy(c, currentLoss, sel) ==
    [c EXCEPT !.mc = selectStrategy(c.mc, currentLoss, sel).mc,
              !.lstmZero = FALSE,
              !.tracesZero = @ /\ (c.mc.stepCounter + 1 < warmupSteps
                                     \/ currentLoss > S \div 2)]

\* rewardStrategy(reward): the baseline moves by 1% towards the clamped
\* reward; the strategy weights are updated when the advantage is at least
\* 0.02 and hidden states are cached, by an amount proportional to the traces
rewardStrategy(c, reward) ==
    LET clampedReward == Clamp(0 - S, S, reward)
        baseline == RoundDiv(c.rewardBaseline * 99, 100)
                       + Sgn(clampedReward) * RoundDiv(Abs(clampedReward), 100)
        advantage == clampedReward - baseline
    IN [c EXCEPT !.rewardBaseline = baseline,
                 !.weightsZero = @ /\ (Abs(advantage) < 200 \/ c.lstmZero
                                         \/ c.tracesZero)]

\* recordError(error): the window holds inputWindowSize errors
recordError(c, error) ==
    [c EXCEPT !.errorHistory = PushCapped(@, error, 16)]

\* reset(): state = initializeState(), errorHistory = [], stepCounter = 0
reset(c) ==
    [c EXCEPT !.mc = FreshController.mc,
              !.lstmZero = TRUE, !.tracesZero = TRUE, !.weightsZero = TRUE,
              !.errorHistory = << >>]

SelectStrategyCall ==
    /\ controller.mc.stepCounter < MCCalls
    /\ \E loss \in Losses, sel \in Samples(controller.mc) :
          /\ controller' = SelectStrategy(controller, loss, sel)
          /\ reply' = [op |-> "selectStrategy", loss |-> loss,
                        strategyId |-> selectStrategy(controller.mc, loss, sel).strategyId,
                        sampled |-> selectStrategy(controller.mc, loss, sel).sampled,
                        prior |-> controller.mc]
    /\ EngineIdle

RewardStrategyCall ==
    /\ controller.rewardBaseline < BaselineCap
    /\ controller' = rewardStrategy(controller, S)
    /\ reply' = [NoReply EXCEPT !.op = "rewardStrategy", !.prior = controller.mc]
    /\ EngineIdle

RecordErrorCall ==
    /\ Len(controller.errorHistory) < HistoryCap
    /\ controller' = recordError(controller, S)
    /\ reply' = [NoReply EXCEPT !.op = "recordError", !.prior = controller.mc]
    /\ EngineIdle

ResetCall ==
    /\ reply.op # "reset"
    /\ controller' = reset(controller)
    /\ reply' = [NoReply EXCEPT !.op = "reset", !.prior = controller.mc]
    /\ EngineIdle

NextMC == SelectStrategyCall \/ RewardStrategyCall \/ RecordErrorCall \/ ResetCall

\* one engine stands by while its caller drives a controller directly
InitMC == Init /\ task = Rest /\ rng = initializeNetwork(SeedOf(1)).rng

SpecMC == InitMC /\ [][NextMC]_vars

\* ------------------------------------------------- the E-I engine variant

\* step() of the variant
VStep ==
    /\ ei.stepCount < VCallLimit(ei.task)
    /\ ei' \in VStepSet(ei)
    /\ UNCHANGED <<network, rng, recentMSEWindow, recentMSE, prevRecentMSE,
                   stepCount, solvedGracePeriod, structuralCooldown, lastInput,
                   metaController, task, calls, metrics, probe, view,
                   controller, reply>>

NextVariant == VStep

\* an instance of the variant after its constructor, beside an idle engine
InitVariant ==
    /\ network = initializeNetwork(SeedOf(1)).net
    /\ rng = initializeNetwork(SeedOf(1)).rng
    /\ recentMSEWindow = << >>
    /\ recentMSE = S
    /\ prevRecentMSE = S
    /\ stepCount = 0
    /\ solvedGracePeriod = 0
    /\ structuralCooldown = 0
    /\ lastInput = 0
    /\ metaController = [stepCounter |-> 0, lastSelectedStrategy |-> 0,
                         lastStrategyChangeStep |-> 0]
    /\ task = Rest
    /\ calls = 0
    /\ metrics = NoMetrics
    /\ probe = NoProbe
    /\ view = NoView
    /\ controller = FreshController
    /\ reply = NoReply
    /\ \E t \in VTasks : ei \in VConstructed(t)

SpecVariant == InitVariant /\ [][NextVariant]_vars

\* ===================================================================== claims

Range(f) == {f[x] : x \in DOMAIN f}

GrowingStatuses == {"GROWING (EXHAUSTION)", "GROWING (DDL)"}

\* C1, across one step(): currentSize does not shrink and stays within
\* maxNeurons; when every mitosis request of the call was refused the status
\* is not a GROWING one.
C1_SizeStep ==
    /\ network.currentSize <= network'.currentSize
    /\ network'.currentSize <= MaxNeurons
    /\ (network.currentSize = MaxNeurons =>
          /\ TRUE \notin Range(probe'.mitosis)
          /\ metrics'.adaptationStatus \notin GrowingStatuses)

\* C1, at capacity: performMitosis returns false and leaves every field of
\* the engine as it was.
Refused(m) == ~m.ok /\ [m.e EXCEPT !.probe = probe] = Engine
C1_RefusedAtCapacity ==
    network.currentSize = MaxNeurons => Refused(performMitosis(Engine))

\* C1: in the main engine currentSize never decreases over step() calls and
\* never exceeds maxNeurons, and a mitosis request made at
\* currentSize = maxNeurons returns false and changes nothing.
C1_MonotonicGrowth ==
    /\ [](network.currentSize <= MaxNeurons /\ C1_RefusedAtCapacity)
    /\ [][C1_SizeStep]_vars

\* C1 witness: the network has grown to maxNeurons and the last step() made
\* a mitosis request there, which was refused.
C1_Witness ==
    /\ network.currentSize = MaxNeurons
    /\ InitialNeurons < MaxNeurons
    /\ FALSE \in Range(probe.mitosis)

\* C2: currentTargetDensity is within [0.1, 0.5] initially and after every
\* step(), whatever errors and lvGrowth / lvDecay values occur.
C2_DensityBounded ==
    network.currentTargetDensity >= 1000 /\ network.currentTargetDensity <= 5000

\* C2 witness: the L-V update has driven the density to its upper bound
C2_Witness ==
    /\ network.currentTargetDensity = 5000
    /\ network.lossWindow # << >>
    /\ metrics.adaptationStatus \in {"LEARNING", "STAGNANT", "GROWING_SYNAPSES"}

\* C3: the prediction and avgLoss of every returned metrics record are
\* finite numbers, whatever inputs and targets the generator supplied.
C3_FiniteMetrics == IsFinite(metrics.prediction) /\ IsFinite(metrics.avgLoss)

\* C3 witness: a record returned for a tick whose input was NaN
C3_Witness ==
    /\ metrics.adaptationStatus = "STABILIZING"
    /\ IsNaN(lastInput)
    /\ C3_FiniteMetrics

\* C4: after every step() no persistent field holds NaN: activations,
\* prevActivations, readout, weights, neuronEnergy and the recent-error
\* average are all numbers.
C4_NoNaNInState ==
    /\ \A i \in Neurons :
          /\ ~IsNaN(network.activations[i])
          /\ ~IsNaN(network.prevActivations[i])
          /\ ~IsNaN(network.readout[i])
          /\ ~IsNaN(network.neuronEnergy[i])
    /\ \A c \in Cells : ~IsNaN(network.weights[c])
    /\ ~IsNaN(recentMSE)

\* |target - prediction| of the step() call that comes next
TickError ==
    XAbs(XSub(generator(task, calls).target,
              Readout(ReservoirUpdate(network, generator(task, calls).input))))

\* the regulator run with n iterations on the reservoir updated by the next
\* step() call
RegulatedTick(n) ==
    applySpectralNormalization(
        [net |-> ReservoirUpdate(network, generator(task, calls).input),
         rng |-> rng], n).net

\* C5, across one step(): when the error of the tick is NaN or above 50 the
\* call returns STABILIZING with prediction 0 and the event, the regulator
\* ran with 20 iterations, activations and prevActivations are all 0, and
\* readout, currentSize, isLocked, patienceCounter, currentTargetDensity and
\* liveHyperparams are as before.
C5_AbortStep ==
    (IsNaN(TickError) \/ XGt(TickError, 50 * S)) =>
        /\ metrics'.adaptationStatus = "STABILIZING"
        /\ metrics'.prediction = 0
        /\ "Emergency Stabilization" \in metrics'.logs
        /\ probe'.regulator = <<20>>
        /\ network'.weights = RegulatedTick(20).weights
        /\ network'.currentSpectralRadius = RegulatedTick(20).currentSpectralRadius
        /\ \A i \in Neurons :
              network'.activations[i] = 0 /\ network'.prevActivations[i] = 0
        /\ network'.readout = network.readout
        /\ network'.currentSize = network.currentSize
        /\ network'.isLocked = network.isLocked
        /\ network'.patienceCounter = network.patienceCounter
        /\ network'.currentTargetDensity = network.currentTargetDensity
        /\ network'.liveHyperparams = network.liveHyperparams

Benign(t, n) ==
    /\ IsFinite(generator(t, n).input)
    /\ IsFinite(generator(t, n).target)
    /\ Abs(generator(t, n).target) <= 50 * S
BenignFrom(t, n) == \A m \in n .. CallLimit(t) : Benign(t, m)

\* the script of task t supplies the same pair at every position from n on
ConstantFrom(t, n) == \A m \in n .. CallLimit(t) : generator(t, m) = generator(t, n)

\* one step() call from an aborted tick to an aborted tick that leaves every
\* field of the engine as it found it, under a script that goes on with the
\* same finite pair, |target| <= 50
C6_StuckStep ==
    /\ metrics.adaptationStatus = "STABILIZING"
    /\ metrics'.adaptationStatus = "STABILIZING"
    /\ BenignFrom(task, calls) /\ ConstantFrom(task, calls)
    /\ <<network, rng, recentMSEWindow, recentMSE, prevRecentMSE, stepCount,
         solvedGracePeriod, structuralCooldown, lastInput, metaController>>'
         = <<network, rng, recentMSEWindow, recentMSE, prevRecentMSE, stepCount,
             solvedGracePeriod, structuralCooldown, lastInput, metaController>>

\* C6: after an aborted tick, when the generator supplies only finite inputs
\* and targets with |target| <= 50 from then on, some later step() returns a
\* status other than STABILIZING.  An aborted tick is a function of the
\* engine's fields and of the pair supplied, so the claim needs that under
\* such a generator no aborted tick repeats the state it started from.
C6_Recoverable == [][~C6_StuckStep]_vars

\* C7, across one step(): the network was locked and stays locked with the
\* recent average error not above unlockThreshold; then readout and the
\* recurrent weights are as before.
C7_FrozenStep ==
    (network.isLocked /\ network'.isLocked /\ recentMSE' <= unlockThreshold) =>
        /\ network'.readout = network.readout
        /\ network'.weights = network.weights

\* C7: once isLocked is true, every tick during which the network stays
\* locked leaves readout and the recurrent weights unchanged.
C7_FreezeCorrectness == [][C7_FrozenStep]_vars

\* C8, across one step(): when recentMSE exceeds unlockThreshold on the tick,
\* pruneSynapses and deltaBasedPrune have set no nonzero weight to zero.
C8_NoPruneStep == recentMSE' > unlockThreshold => probe'.pruned = 0

\* C8: on any tick where the recent average error exceeds unlockThreshold no
\* synapse is pruned by pruneSynapses or by deltaBasedPrune.
C8_PruneConservatism == [][C8_NoPruneStep]_vars

\* C8 witness: the heartbeat called pruneSynapses on a tick whose recent
\* average error was above unlockThreshold, and a synapse that fails the
\* selection check is still there
C8_Witness ==
    /\ probe.heartbeat
    /\ recentMSE > unlockThreshold
    /\ \E c \in Cells : Weak(network, c)

\* C9: Dale's Law in the main engine, after construction and after every
\* step(): every nonzero weights[i][j] between active neurons has the sign
\* of neuronTypes[i].
C9_DalesLaw ==
    \A i, j \in 0 .. network.currentSize - 1 :
        network.weights[Idx(i, j)] # 0 =>
            Sgn(network.weights[Idx(i, j)]) = network.neuronTypes[i]

\* the engine's network and random generator as they are, and the same with
\* an all-zero weight matrix
Here == [net |-> network, rng |-> rng]
Blank == [net |-> [network EXCEPT !.weights = [c \in Cells |-> 0]], rng |-> rng]
\* the iteration counts the engine calls the regulator with
IterationCounts == {1, 10, StabilizationIterations}

\* C11: immediately after applySpectralNormalization returns, for any
\* iteration count and any weight matrix, the all-zero one included, the
\* stored currentSpectralRadius is at most liveHyperparams.spectral.
C11_SpectralBound ==
    \A n \in IterationCounts : \A st \in {Here, Blank} :
        applySpectralNormalization(st, n).net.currentSpectralRadius
            <= st.net.liveHyperparams.spectral

\* C11 witness: a state of a running engine whose weight matrix the regulator
\* would scale down, its estimate being above the target
C11_Witness ==
    /\ stepCount > 0
    /\ applySpectralNormalization(Here, 1).net.weights # network.weights
    /\ applySpectralNormalization(Here, 1).net.currentSpectralRadius
          = network.liveHyperparams.spectral

\* C12, across one step() of a run whose error is held high (script Hard,
\* recent average error above unlockThreshold): below patienceLimit the
\* counter goes up by exactly 1 and, on the tick where it crosses
\* patienceLimit, currentSize goes up by exactly 1 and the counter is 0.
C12_PatienceStep ==
    (task = Hard /\ recentMSE' > unlockThreshold) =>
        /\ network.patienceCounter < patienceLimit =>
              network'.patienceCounter = network.patienceCounter + 1
        /\ network.patienceCounter = patienceLimit =>
              /\ network'.currentSize = network.currentSize + 1
              /\ network'.patienceCounter = 0

\* C12: with the error held high on every tick, patienceCounter increases by
\* exactly 1 per tick until it exceeds patienceLimit, and on that tick
\* currentSize increases by exactly 1 and patienceCounter is reset to 0.
C12_PatienceGrowth == [][C12_PatienceStep]_vars

\* the numbers of a metrics record
MetricsNumbers(m) == {m.loss, m.avgLoss, m.prediction, m.target, m.spectralRadius}
\* the step() call that was fed the outlier has just returned
OutlierFed == task = HugeInput /\ calls = EventCall + 1 /\ lastInput = Outlier

C14_Snapshot ==
    view.held =>
        /\ Seen.activations = view.then.activations
        /\ Seen.weights = view.then.weights
        /\ Seen.readout = view.then.readout
        /\ Seen.currentSize = view.then.currentSize
        /\ Seen.liveHyperparams = view.then.liveHyperparams

\* the last call was selectStrategy
Selected == reply.op = "selectStrategy"
\* this step is a selectStrategy call
SelectStep ==
    reply'.op = "selectStrategy"
        /\ controller'.mc.stepCounter = controller.mc.stepCounter + 1

\* C15: after warmup every selectStrategy call with currentLoss > 0.5
\* returns STABILIZE, however recently a strategy was chosen, and sets
\* lastStrategyChangeStep to the controller step and lastSelectedStrategy to
\* STABILIZE.
C15_PanicOverride ==
    (Selected /\ controller.mc.stepCounter >= warmupSteps /\ reply.loss > S \div 2) =>
        /\ reply.strategyId = STABILIZE
        /\ controller.mc.lastSelectedStrategy = STABILIZE
        /\ controller.mc.lastStrategyChangeStep = controller.mc.stepCounter

\* C15 witness: a panic call made inside the lock window of another strategy,
\* which had been sampled
C15_Witness ==
    /\ Selected /\ reply.loss > S \div 2
    /\ reply.strategyId = STABILIZE
    /\ reply.prior.lastSelectedStrategy \notin {STABILIZE, EXPLORE}
    /\ reply.prior.lastStrategyChangeStep >= strategyLockDuration
    /\ controller.mc.stepCounter - reply.prior.lastStrategyChangeStep
          < strategyLockDuration

\* C16, across one selectStrategy call that is one of the first warmupSteps
\* calls: it returns EXPLOIT and leaves lastSelectedStrategy,
\* lastStrategyChangeStep and the eligibility traces alone.
C16_WarmupStep ==
    (SelectStep /\ controller.mc.stepCounter < warmupSteps) =>
        /\ reply'.strategyId = EXPLOIT
        /\ controller'.mc.lastSelectedStrategy = controller.mc.lastSelectedStrategy
        /\ controller'.mc.lastStrategyChangeStep = controller.mc.lastStrategyChangeStep
        /\ controller'.tracesZero = controller.tracesZero

\* C16: each of the first warmupSteps (50) selectStrategy calls after
\* construction or reset() returns EXPLOIT whatever the loss, and does not
\* modify lastSelectedStrategy, lastStrategyChangeStep or the traces.
C16_Warmup == [][C16_WarmupStep]_vars

\* C17, across one selectStrategy call at step t, s being the step at which
\* the current strategy was selected: with t - s < strategyLockDuration and
\* currentLoss <= 0.5 the call returns that strategy, and a strategy is
\* sampled only when t - s >= strategyLockDuration.
C17_LockStep ==
    SelectStep =>
        /\ (/\ controller.mc.lastStrategyChangeStep >= warmupSteps
            /\ controller'.mc.stepCounter - controller.mc.lastStrategyChangeStep
                  < strategyLockDuration
            /\ reply'.loss <= S \div 2)
              => /\ reply'.strategyId = controller.mc.lastSelectedStrategy
                 /\ controller'.mc.lastSelectedStrategy = controller.mc.lastSelectedStrategy
                 /\ controller'.mc.lastStrategyChangeStep = controller.mc.lastStrategyChangeStep
        /\ reply'.sampled =>
              controller'.mc.stepCounter - controller.mc.lastStrategyChangeStep
                  >= strategyLockDuration

\* C17: strategy hysteresis: a strategy selected at step s, by sampling or
\* by panic, is returned by every later call at step t with
\* t - s < strategyLockDuration and currentLoss <= 0.5; a new strategy is
\* sampled only when t - s >= strategyLockDuration.
C17_Hysteresis == [][C17_LockStep]_vars

\* C17 witness: a call with loss 0.5 returned the strategy a panic had
\* forced strategyLockDuration - 1 steps before: the last call under the lock
C17_Witness ==
    /\ Selected /\ reply.loss <= S \div 2 /\ ~reply.sampled
    /\ reply.strategyId = STABILIZE
    /\ reply.prior.lastSelectedStrategy = STABILIZE
    /\ reply.prior.lastStrategyChangeStep >= warmupSteps
    /\ controller.mc.stepCounter - reply.prior.lastStrategyChangeStep
          = strategyLockDuration - 1

\* C18: after reset() every piece of controller state that influences later
\* behaviour (step counter, LSTM states, strategy weights, eligibility
\* traces, lock tracker, error history, reward baseline) equals that of a
\* freshly constructed controller.
C18_ResetIsFresh == reply.op = "reset" => controller = FreshController

\* the positions (i, j) that hold a nonzero recurrent weight
Synapses(net) == {c \in Cells : net.weights[c] # 0}

\* C19, across one step() of the engine that starts with isLocked true:
\* currentSize, currentTargetDensity, totalRegrown and the positions of the
\* nonzero weights are unchanged, patienceCounter has not grown, and no
\* mitosis and no pruning ran.
C19_LockedStep ==
    (network.isLocked /\ calls' # calls) =>
        /\ network'.currentSize = network.currentSize
        /\ network'.currentTargetDensity = network.currentTargetDensity
        /\ network'.totalRegrown = network.totalRegrown
        /\ network'.patienceCounter <= network.patienceCounter
        /\ Synapses(network') = Synapses(network)
        /\ probe'.mitosis = << >> /\ ~probe'.heartbeat
        /\ probe'.pruned = 0 /\ ~probe'.deltaPrune

\* C19: structural change is frozen while locked: a tick that starts with
\* isLocked true, the unlocking tick included, changes none of currentSize,
\* currentTargetDensity, totalRegrown and the set of nonzero weight
\* positions, does not increase patienceCounter and runs no mitosis,
\* regrowth, rewiring or pruning.
C19_StructureFrozen == [][C19_LockedStep]_vars

\* C19 witness: the tick on which a locked network unlocked, its error far
\* above what makes an unlocked network adapt its structure
C19_Witness ==
    /\ metrics.adaptationStatus = "UNLOCKED"
    /\ ~network.isLocked
    /\ recentMSE > unlockThreshold

\* C20, across one step() of the engine: solvedGracePeriod counts the
\* consecutive non-aborted ticks with recentMSE < solvedThreshold; isLocked
\* turns true only on such a tick with the count at 100 or more, turns false
\* only on a non-aborted tick with recentMSE >= solvedThreshold and
\* > unlockThreshold, reported as UNLOCKED, and stays true on a non-aborted
\* tick with recentMSE between the thresholds.
C20_LockStep ==
    calls' # calls =>
        /\ solvedGracePeriod' =
              IF probe'.aborted THEN solvedGracePeriod
              ELSE IF recentMSE' < solvedThreshold THEN solvedGracePeriod + 1
              ELSE 0
        /\ (~network.isLocked /\ network'.isLocked) =>
              /\ ~probe'.aborted
              /\ recentMSE' < solvedThreshold
              /\ solvedGracePeriod' >= 100
        /\ (network.isLocked /\ ~network'.isLocked) =>
              /\ ~probe'.aborted
              /\ recentMSE' >= solvedThreshold /\ recentMSE' > unlockThreshold
              /\ metrics'.adaptationStatus = "UNLOCKED"
        /\ (/\ network.isLocked /\ ~probe'.aborted
            /\ recentMSE' >= solvedThreshold /\ recentMSE' <= unlockThreshold)
              => network'.isLocked

\* C20: isLocked changes only in two ways: false -> true on a non-aborted
\* tick that is the 100th or later consecutive non-aborted tick with
\* recentMSE < solvedThreshold, and true -> false on a non-aborted tick with
\* recentMSE >= solvedThreshold and > unlockThreshold (status UNLOCKED); with
\* recentMSE between the thresholds a locked network stays locked.
C20_LockTransitions == (solvedGracePeriod = 0 /\ ~network.isLocked) /\ [][C20_LockStep]_vars

\* C20 witness: a network that locked after its 100th consecutive low-error
\* tick and has stayed locked on a tick with recentMSE between the thresholds
C20_Witness ==
    /\ network.isLocked
    /\ solvedGracePeriod = 0
    /\ recentMSE >= solvedThreshold /\ recentMSE <= unlockThreshold
    /\ metrics.adaptationStatus = "SOLVED"

\* C10: in the E-I variant, after construction and after every step(), each
\* nonzero weight between active neurons has the sign of the type of the
\* neuron of its row.
C10_DalesLawVariant ==
    \A c \in Within(ei.network.currentSize) :
        ei.network.weights[c] # 0 =>
            Sgn(ei.network.weights[c]) = ei.network.neuronTypes[c[1]]

\* C10 witness: a network grown by mitosis whose inhibitory neuron drives a
\* synapse, after a tick that pruned and regrew synapses
C10_Witness ==
    /\ ei.network.currentSize > VInitialNeurons
    /\ {"PRUNING", "REGROWTH"} \subseteq ei.did
    /\ \E c \in Within(ei.network.currentSize) :
          ei.network.neuronTypes[c[1]] = 0 - 1 /\ ei.network.weights[c] < 0

\* C21, across one step(): a tick that is not aborted and leaves
\* recentMSE < solvedThreshold changes no readout weight and runs no
\* supervised Hebbian update.
C21_FrozenTick ==
    (calls' # calls /\ ~probe'.aborted /\ recentMSE' < solvedThreshold) =>
        /\ network'.readout = network.readout
        /\ ~probe'.hebbian

\* C21: on every non-aborted tick whose recentMSE, this tick's error
\* included, is below solvedThreshold the effective learning rate is 0:
\* readout is unchanged and the supervised Hebbian update is not applied,
\* locked or not.
C21_SolvedFreeze == [][C21_FrozenTick]_vars

\* C21 witness: such a tick of an unlocked network with a live learning rate
\* above the Hebbian floor, a nonzero error and an active neuron
C21_Witness ==
    /\ metrics # NoMetrics /\ ~probe.aborted
    /\ recentMSE < solvedThreshold
    /\ ~network.isLocked
    /\ network.liveHyperparams.learningRate > 100
    /\ metrics.loss > 0
    /\ \E i \in Neurons : i < network.currentSize /\ network.activations[i] # 0

\* C22, across one step(): with STABILIZE selected by the previous tick and
\* again by this one, the tick leaves readout unchanged.
C22_StabilizeTick ==
    (/\ calls' # calls /\ ~probe'.aborted
     /\ probe.strategy = STABILIZE /\ probe'.strategy = STABILIZE) =>
        network'.readout = network.readout

\* C22: while STABILIZE is the selected strategy the learning rate applied to
\* the readout is 0, so the LMS update leaves readout unchanged.
C22_StabilizeStopsLearning == [][C22_StabilizeTick]_vars

\* the L1 sum of a row over the active columns
RowL1(net, rowIdx) ==
    SumTo([j \in 0 .. net.currentSize - 1 |-> Abs(net.weights[Idx(rowIdx, j)])],
          net.currentSize)

\* C23: normalizeSingleRow only ever scales a row down. For every row of a
\* reachable network, the row after normalizeSingleRow(net, row, spectral)
\* has an L1 sum of at most the spectral target (one unit of rounding per
\* weight allowed), no weight of it is larger in absolute value than before
\* the call, and a row whose sum was below the target is left unchanged.
C23_RowOnlyShrinks ==
    \A r \in Neurons :
        r < network.currentSize =>
            LET target == network.liveHyperparams.spectral
                after == normalizeSingleRow(network, r, target)
            IN /\ RowL1(after, r) <= target + network.currentSize
               /\ \A j \in Neurons :
                      Abs(after.weights[Idx(r, j)]) <= Abs(network.weights[Idx(r, j)])
               /\ RowL1(network, r) < target => after.weights = network.weights

\* C24, across one step(): currentSize
\* goes up by at most 1; it goes up only on a tick whose cooldown, after the
\* decrement of that tick, is 0 (at most 1 when the tick starts), and the
\* tick leaves a cooldown of at least 20; a tick that starts with a cooldown
\* of 2 or more lowers it by at most 1 and does not grow. By induction two
\* ticks on which currentSize goes up are at least 20 step() calls apart.
C24_GrowthStep ==
    calls' # calls =>
        /\ network'.currentSize <= network.currentSize + 1
        /\ network'.currentSize >= network.currentSize
        /\ network'.currentSize > network.currentSize =>
               /\ structuralCooldown <= 1
               /\ structuralCooldown' >= 20
               /\ probe'.mitosis # << >>
        /\ structuralCooldown >= 2 =>
               /\ structuralCooldown' >= structuralCooldown - 1
               /\ network'.currentSize = network.currentSize

TickReward(prev, recent) == Clamp(0 - S, S, (prev - recent) * 50)

\* C25, across one step(): on the first non-aborted tick after a tick
\* aborted by the explosion guard, the reward passed to rewardStrategy is
\* negative.
C25_PunishedStep ==
    (calls' # calls /\ probe.aborted /\ ~probe'.aborted) =>
        TickReward(prevRecentMSE', recentMSE') < 0

\* C25: a crash is punished: the reward passed to rewardStrategy on the
\* first non-aborted tick after an aborted one is negative.
C25_CrashPunished == [][C25_PunishedStep]_vars

\* getSteps()
getSteps == stepCount

\* C26, across one step(): every step() call, one aborted by the
\* explosion guard included, advances the tick counter by exactly 1, so that getSteps() counts the
\* step() calls and the index handed to the task generator (this.stepCount
\* at the start of the call) is never handed to it twice.
C26_CountedStep == calls' # calls => getSteps' = getSteps + 1

\* C26: getSteps() equals the number of step() calls made since
\* construction: every call, aborted ones included, advances it by 1.
C26_StepsCountCalls == [][C26_CountedStep]_vars

\* isLocked()
isLocked == network.isLocked

\* C27: after every non-aborted tick the returned adaptationStatus is
\* "SOLVED" exactly when isLocked() is true.
C27_SolvedIffLocked ==
    (metrics # NoMetrics /\ ~probe.aborted) =>
        (metrics.adaptationStatus = "SOLVED" <=> isLocked)

\* C28: the recent-error window never holds more than 20 samples, and the
\* features 0, 1 and 2 (low-frequency trend, mid-frequency cycle,
\* high-frequency volatility) computed from it are 0 on every tick.
C28_NoFrequencyFeatures ==
    /\ Len(recentMSEWindow) <= 20
    /\ errorFeatures(recentMSEWindow) = <<0, 0, 0>>
\* C28 witness: more than 32 errors have been recorded, the window is full,
\* and the error rose between its halves: the trend feature would not be 0
\* were the block to run on a window of this content
C28_Witness ==
    /\ ~probe.aborted /\ stepCount > 32
    /\ Len(recentMSEWindow) = 20
    /\ SumSeq(SubSeq(recentMSEWindow, 11, 20))
         > SumSeq(SubSeq(recentMSEWindow, 1, 10)) + S

\* beta of the structural action of a strategy: (lvGrowth + lvDecay) * 10
\* of its preset
PresetBeta(strategyId) ==
    (STRATEGIES[strategyId].lvGrowth + STRATEGIES[strategyId].lvDecay) * 10

\* C29: with the five presets the controller-driven structural action is
\* grow under EXPLORE and RESET and rewire under EXPLOIT; STABILIZE and
\* CONSOLIDATE give beta <= 0.3 and no action. After every tick:
\* deltaBasedPrune was not invoked, the status is not "PRUNING (DDL)", a
\* status "GROWING (DDL)" goes with EXPLORE or RESET, "REWIRING (DDL)" with
\* EXPLOIT, and neither goes with STABILIZE or CONSOLIDATE.
C29_NoDeltaPrune ==
    /\ \A s \in {STABILIZE, CONSOLIDATE} : PresetBeta(s) <= 3000
    /\ metrics # NoMetrics =>
        /\ ~probe.deltaPrune
        /\ metrics.adaptationStatus # "PRUNING (DDL)"
        /\ metrics.adaptationStatus = "GROWING (DDL)" =>
               probe.strategy \in {EXPLORE, RESET}
        /\ metrics.adaptationStatus = "REWIRING (DDL)" => probe.strategy = EXPLOIT
\* C29 witness: a tick of an unlocked network under STABILIZE reached the
\* gate of the structural control with the cooldown at 0, and no action
\* followed
C29_Witness ==
    /\ metrics # NoMetrics /\ ~probe.aborted
    /\ probe.strategy = STABILIZE
    /\ ~network.isLocked
    /\ structuralCooldown = 0
    /\ metrics.adaptationStatus \in {"STAGNANT", "LEARNING"}

\* C30: with warmupSteps 50 and strategyLockDuration 100, while currentLoss
\* has been <= 0.5 on every call since construction or reset() (the
\* persistence tracker is then still as initializeState() made it, no
\* panic override and no sample having written it), the selectStrategy
\* calls numbered 50 to 99 return EXPLORE without sampling, no call before
\* the 100th draws from the softmax, and the 100th does.
C30_FirstSample ==
    (/\ reply.op = "selectStrategy"
     /\ reply.loss <= S \div 2
     /\ reply.prior.lastStrategyChangeStep = 0) =>
        LET n == reply.prior.stepCounter + 1
        IN /\ (n >= 50 /\ n <= 99) => (reply.strategyId = EXPLORE /\ ~reply.sampled)
           /\ n < 100 => ~reply.sampled
           /\ n = 100 => reply.sampled
\* C30 witness: the 100th call of a controller whose losses never exceeded
\* 0.5 past the warmup drew a strategy other than EXPLORE
C30_Witness ==
    /\ reply.op = "selectStrategy"
    /\ reply.loss <= S \div 2
    /\ reply.prior.lastStrategyChangeStep = 0
    /\ reply.prior.stepCounter + 1 = 100
    /\ reply.sampled
    /\ reply.strategyId = CONSOLIDATE

====
